---- MODULE Spec2Model ----
(***************************************************************************)
(* A model of the NASA-augmented chat assistant: the keyword router, the   *)
(* fetchers and the formatter of nasa_tool.py, and the session loop of     *)
(* mcp_chat.py.                                                            *)
(*                                                                         *)
(* Python strings are sequences of one-character strings, so that          *)
(* lower-casing, substring search, the date pattern, slicing and string    *)
(* formatting are computed rather than assumed.  Python dicts are records, *)
(* Python lists are sequences.                                             *)
(***************************************************************************)
EXTENDS Integers, Sequences, FiniteSets, TLC

VARIABLES
    pc,          \* position of the program: see each specification
    call,        \* the operation under way and its arguments
    http,        \* the provider's responses to the requests of this operation
    ret,         \* the outcome of the last operation
    messages,    \* mcp_chat: the conversation history
    printed,     \* mcp_chat: the lines printed during the last turn
    llm,         \* mcp_chat: the message lists handed to ollama.chat in the last turn
    exit_status  \* mcp_chat: "running", or the exit status of the process

vars == <<pc, call, http, ret, messages, printed, llm, exit_status>>

(***************************************************************************)
(* Strings                                                                 *)
(***************************************************************************)

\* Python's None.  Every character of a string is a one-character string, so
\* None differs from every string, the empty string included.
None == <<"None">>

UPPERCASE == <<"A","B","C","D","E","F","G","H","I","J","K","L","M","N","O","P","Q","R","S","T","U","V","W","X","Y","Z">>
LOWERCASE == <<"a","b","c","d","e","f","g","h","i","j","k","l","m","n","o","p","q","r","s","t","u","v","w","x","y","z">>
DIGITS == <<"0","1","2","3","4","5","6","7","8","9">>

\* str.lower(), one character (ASCII letters)
lower_char(c) ==
    IF \E i \in 1..Len(UPPERCASE) : UPPERCASE[i] = c
    THEN LOWERCASE[CHOOSE i \in 1..Len(UPPERCASE) : UPPERCASE[i] = c]
    ELSE c

\* str.upper(), one character (ASCII letters)
upper_char(c) ==
    IF \E i \in 1..Len(LOWERCASE) : LOWERCASE[i] = c
    THEN UPPERCASE[CHOOSE i \in 1..Len(LOWERCASE) : LOWERCASE[i] = c]
    ELSE c

lower(s) == [i \in 1..Len(s) |-> lower_char(s[i])]
upper(s) == [i \in 1..Len(s) |-> upper_char(s[i])]

\* mutant: query.startswith(keyword) in place of keyword in query
starts_with(s, sub) == Len(sub) <= Len(s) /\ SubSeq(s, 1, Len(sub)) = sub

\* keyword in query
Contains(s, sub) ==
    \E i \in 1..(Len(s) - Len(sub) + 1) : SubSeq(s, i, i + Len(sub) - 1) = sub

\* any(keyword in query for keyword in keywords)
any_keyword(query, keywords) ==
    \E k \in 1..Len(keywords) : Contains(query, keywords[k])

\* \d
IsDigit(c) == \E i \in 1..Len(DIGITS) : DIGITS[i] = c

\* the pattern \d{4}-\d{2}-\d{2} matched at position i of s
DateAt(s, i) ==
    /\ i + 9 <= Len(s)
    /\ \A j \in 0..9 : IF j \in {4, 7} THEN s[i + j] = "-" ELSE IsDigit(s[i + j])

\* mutant: re.match in place of re.search, which finds a date only at the
\* start of the text
re_match_date(s) == IF DateAt(s, 1) THEN SubSeq(s, 1, 10) ELSE None

\* date_match = re.search(r'(\d{4}-\d{2}-\d{2})', query);
\* date = date_match.group(1) if date_match else None
re_search_date(s) ==
    IF \E i \in 1..Len(s) : DateAt(s, i)
    THEN LET m == CHOOSE i \in 1..Len(s) :
                      DateAt(s, i) /\ \A j \in 1..(i - 1) : ~DateAt(s, j)
         IN  SubSeq(s, m, m + 9)
    ELSE None

(***************************************************************************)
(* Router: the keyword sets and the selection of get_nasa_response         *)
(***************************************************************************)

apod_keywords == << <<"a","s","t","r","o","n","o","m","y"," ","p","i","c","t","u","r","e">>, <<"a","p","o","d">>, <<"p","i","c","t","u","r","e"," ","o","f"," ","t","h","e"," ","d","a","y">>,
                    <<"n","a","s","a"," ","i","m","a","g","e">>, <<"s","p","a","c","e"," ","p","h","o","t","o">> >>
mars_keywords == << <<"m","a","r","s">>, <<"r","o","v","e","r">>, <<"c","u","r","i","o","s","i","t","y">>, <<"p","e","r","s","e","v","e","r","a","n","c","e">>,
                    <<"o","p","p","o","r","t","u","n","i","t","y">>, <<"s","p","i","r","i","t">> >>
neo_keywords  == << <<"a","s","t","e","r","o","i","d">>, <<"n","e","a","r"," ","e","a","r","t","h">>, <<"n","e","o">>, <<"o","b","j","e","c","t">>, <<"i","m","p","a","c","t">>,
                    <<"p","o","t","e","n","t","i","a","l","l","y"," ","h","a","z","a","r","d","o","u","s">> >>
epic_keywords == << <<"e","a","r","t","h">>, <<"e","p","i","c">>, <<"b","l","u","e"," ","m","a","r","b","l","e">>, <<"p","l","a","n","e","t"," ","p","h","o","t","o">>,
                    <<"e","a","r","t","h"," ","v","i","e","w">>, <<"e","a","r","t","h"," ","i","m","a","g","e">> >>

APOD == <<"a","p","o","d">>
MARS == <<"m","a","r","s">>
NEO  == <<"n","e","o">>
EPIC == <<"e","p","i","c">>

\* the first position of query at which sub starts, Len(query) + 1 if none
find(query, sub) ==
    IF Contains(query, sub)
    THEN CHOOSE i \in 1..(Len(query) - Len(sub) + 1) :
             /\ SubSeq(query, i, i + Len(sub) - 1) = sub
             /\ \A j \in 1..(i - 1) : SubSeq(query, j, j + Len(sub) - 1) # sub
    ELSE Len(query) + 1

\* mutant: the rover whose name comes first in the query
select_rover_first_named(query) ==
    LET names == << <<"c","u","r","i","o","s","i","t","y">>, <<"p","e","r","s","e","v","e","r","a","n","c","e">>, <<"o","p","p","o","r","t","u","n","i","t","y">>, <<"s","p","i","r","i","t">> >>
        named == {k \in 1..Len(names) : Contains(query, names[k])}
    IN  IF named = {} THEN <<"c","u","r","i","o","s","i","t","y">>
        ELSE names[CHOOSE k \in named :
                       \A m \in named : find(query, names[k]) <= find(query, names[m])]

\* mutant: the default rover whatever the query names
select_rover_default(query) == <<"c","u","r","i","o","s","i","t","y">>

\* the rover named by a rover-photos query
select_rover(query) ==
    IF Contains(query, <<"p","e","r","s","e","v","e","r","a","n","c","e">>) THEN <<"p","e","r","s","e","v","e","r","a","n","c","e">>
    ELSE IF Contains(query, <<"o","p","p","o","r","t","u","n","i","t","y">>) THEN <<"o","p","p","o","r","t","u","n","i","t","y">>
    ELSE IF Contains(query, <<"s","p","i","r","i","t">>) THEN <<"s","p","i","r","i","t">>
    ELSE <<"c","u","r","i","o","s","i","t","y">>

\* mutant: the near-earth-objects keywords tested before the rover keywords
select_category_neo_first(query) ==
    IF any_keyword(query, apod_keywords) THEN APOD
    ELSE IF any_keyword(query, neo_keywords) THEN NEO
    ELSE IF any_keyword(query, mars_keywords) THEN MARS
    ELSE IF any_keyword(query, epic_keywords) THEN EPIC
    ELSE None

\* the category chosen for a lower-cased query, None when no keyword occurs
select_category(query) ==
    IF any_keyword(query, apod_keywords) THEN APOD
    ELSE IF any_keyword(query, mars_keywords) THEN MARS
    ELSE IF any_keyword(query, neo_keywords) THEN NEO
    ELSE IF any_keyword(query, epic_keywords) THEN EPIC
    ELSE None

\* What get_nasa_response decides before it calls a fetcher: the category and
\* the arguments of the fetcher call.
Route(user_query) ==
    LET query == lower(user_query)
        data_type == select_category(query)
    IN  [data_type |-> data_type,
         rover     |-> IF data_type = MARS THEN select_rover(query) ELSE None,
         date      |-> IF data_type = None THEN None ELSE re_search_date(query)]

(***************************************************************************)
(* Numbers and dates                                                       *)
(***************************************************************************)

digit_value(c) == (CHOOSE i \in 1..Len(DIGITS) : DIGITS[i] = c) - 1

RECURSIVE int_of(_)
\* int(s) for a string of digits
int_of(s) ==
    IF s = <<>> THEN 0
    ELSE int_of(SubSeq(s, 1, Len(s) - 1)) * 10 + digit_value(s[Len(s)])

RECURSIVE str_of(_)
\* str(n) for n >= 0
str_of(n) ==
    IF n < 10 THEN <<DIGITS[n + 1]>>
    ELSE str_of(n \div 10) \o <<DIGITS[(n % 10) + 1]>>

\* a two-digit field of strftime (%m, %d)
two_digits(n) == IF n < 10 THEN <<"0">> \o str_of(n) ELSE str_of(n)

is_leap(y) == (y % 4 = 0 /\ y % 100 # 0) \/ y % 400 = 0

days_in_month(y, m) ==
    IF m = 2 THEN (IF is_leap(y) THEN 29 ELSE 28)
    ELSE IF m \in {4, 6, 9, 11} THEN 30
    ELSE 31

\* The fields of a string of the shape dddd-dd-dd.
date_fields(date) ==
    [year  |-> int_of(SubSeq(date, 1, 4)),
     month |-> int_of(SubSeq(date, 6, 7)),
     day   |-> int_of(SubSeq(date, 9, 10))]

\* datetime.strptime(date, "%Y-%m-%d") succeeds.  The strings handed to it
\* in this model are None or of the shape dddd-dd-dd (strptime also accepts
\* one-digit months and days, which the router's pattern never yields).
strptime_ok(date) ==
    /\ date # None
    /\ Len(date) = 10
    /\ DateAt(date, 1)
    /\ LET f == date_fields(date)
       IN  /\ f.year >= 1
           /\ f.month \in 1..12
           /\ f.day \in 1..days_in_month(f.year, f.month)

RECURSIVE add_days(_, _)
\* datetime + timedelta(days=n), on date fields
add_days(f, n) ==
    IF n = 0 THEN f
    ELSE IF f.day < days_in_month(f.year, f.month)
         THEN add_days([f EXCEPT !.day = f.day + 1], n - 1)
    ELSE IF f.month < 12
         THEN add_days([f EXCEPT !.day = 1, !.month = f.month + 1], n - 1)
    ELSE add_days([year |-> f.year + 1, month |-> 1, day |-> 1], n - 1)

\* strftime with the separator given ("%Y-%m-%d", "%Y/%m/%d"), for years of
\* four digits
strftime(f, sep) ==
    str_of(f.year) \o sep \o two_digits(f.month) \o sep \o two_digits(f.day)

\* datetime.now().strftime("%Y-%m-%d"): the day the program runs
Today == <<"2","0","2","4","-","0","2","-","2","7">>

(***************************************************************************)
(* HTTP responses and JSON values                                          *)
(***************************************************************************)

\* response.json() yields a dict, a list, or raises on a body that is not JSON
Dict(r) == [t |-> "dict", v |-> r]
List(s) == [t |-> "list", v |-> s]
InvalidJson == [t |-> "invalid", v |-> <<>>]
EmptyDict == <<>>

\* requests.get(url) returns a response ...
Response(status_code, text, json) ==
    [raises |-> FALSE, status_code |-> status_code, text |-> text, json |-> json]
\* ... or raises (no connection, timeout, ...)
NoResponse ==
    [raises |-> TRUE, status_code |-> 0, text |-> <<>>, json |-> InvalidJson]

\* dict.get(key, default)
get(data, key, default) == IF key \in DOMAIN data THEN data[key] ELSE default

\* What a function did: it returned a value or raised, after the I/O in io.
Return(value, io) == [kind |-> "return", value |-> value, exc |-> "", io |-> io]
Raise(exc, io) == [kind |-> "raise", value |-> EmptyDict, exc |-> exc, io |-> io]

\* I/O events: a GET of a URL (its variable parts) and a response.json() call
Get(api, date, rover, end_date) ==
    [op |-> "get", api |-> api, date |-> date, rover |-> rover, end_date |-> end_date]
Json == [op |-> "json", api |-> "", date |-> None, rover |-> None, end_date |-> None]

\* {"error": f"API error: {response.status_code}", "message": response.text}
api_error(response) ==
    [error |-> <<"A","P","I"," ","e","r","r","o","r",":"," ">> \o str_of(response.status_code),
     message |-> response.text]

(***************************************************************************)
(* Fetchers of nasa_tool (module level, reached from the router)           *)
(***************************************************************************)

apod_record(data) ==
    [title       |-> get(data, "title", None),
     date        |-> get(data, "date", None),
     explanation |-> get(data, "explanation", None),
     image_url   |-> get(data, "url", None),
     media_type  |-> get(data, "media_type", None),
     copyright   |-> get(data, "copyright", <<"N","A","S","A">>)]

get_astronomy_picture(date, h) ==
    LET d == IF date = None THEN Today ELSE date
        req == <<Get("apod", d, None, None)>>
        response == h[1]
    IN  IF response.raises THEN Raise("ConnectionError", req)
        ELSE IF response.status_code # 200 THEN Return(api_error(response), req)
        ELSE IF response.json.t = "invalid" THEN Raise("JSONDecodeError", req \o <<Json>>)
        ELSE IF response.json.t # "dict" THEN Raise("AttributeError", req \o <<Json>>)
        ELSE Return(apod_record(response.json.v), req \o <<Json>>)

\* data["photos"][:5]
MarsLimit == 5

photo_keys == {"id", "sol", "camera", "earth_date", "img_src"}

photo_ok(photo) ==
    /\ photo_keys \subseteq DOMAIN photo
    /\ "full_name" \in DOMAIN photo.camera

photo_record(photo) ==
    [id         |-> photo.id,
     sol        |-> photo.sol,
     camera     |-> photo.camera.full_name,
     earth_date |-> photo.earth_date,
     img_src    |-> photo.img_src]

\* seq[:n] for n >= 0
Take(seq, n) == SubSeq(seq, 1, IF n < Len(seq) THEN n ELSE Len(seq))

no_photos_message(rover, date) ==
    [message |-> <<"N","o"," ","p","h","o","t","o","s"," ","a","v","a","i","l","a","b","l","e"," ","f","o","r"," ">> \o rover \o <<" ","o","n"," ">> \o date]

\* the part of get_mars_photos after data = response.json()
mars_record(rover, d, data, io) ==
    IF get(data, "photos", <<>>) = <<>> THEN Return(no_photos_message(rover, d), io)
    ELSE LET photos == Take(data.photos, MarsLimit)
         IN  IF \E i \in 1..Len(photos) : ~photo_ok(photos[i])
             THEN Raise("KeyError", io)
             ELSE Return([rover |-> rover,
                          date |-> d,
                          photo_count |-> Len(photos),
                          photos |-> [i \in 1..Len(photos) |-> photo_record(photos[i])]],
                         io)

get_mars_photos(rover, date, h) ==
    LET d == IF date = None THEN Today ELSE date
        req == <<Get("mars-photos", d, rover, None)>>
        response == h[1]
    IN  IF response.raises THEN Raise("ConnectionError", req)
        ELSE IF response.status_code # 200 THEN Return(api_error(response), req)
        ELSE IF response.json.t = "invalid" THEN Raise("JSONDecodeError", req \o <<Json>>)
        ELSE IF response.json.t # "dict" THEN Raise("AttributeError", req \o <<Json>>)
        ELSE mars_record(rover, d, response.json.v, req \o <<Json>>)

(***************************************************************************)
(* Near-earth objects                                                      *)
(***************************************************************************)

\* The decimal strings of the feed are digits with at most one "." followed
\* by one or two digits; float() of such a string is carried in hundredths.
\* float() raises ValueError on the other strings drawn in this model.
dot_at(s) == IF \E i \in 1..Len(s) : s[i] = "."
             THEN CHOOSE i \in 1..Len(s) : s[i] = "." /\ \A j \in 1..(i - 1) : s[j] # "."
             ELSE 0

all_digits(s) == Len(s) > 0 /\ \A i \in 1..Len(s) : IsDigit(s[i])

float_ok(s) ==
    /\ s # None
    /\ IF dot_at(s) = 0 THEN all_digits(s)
       ELSE /\ all_digits(SubSeq(s, 1, dot_at(s) - 1))
            /\ all_digits(SubSeq(s, dot_at(s) + 1, Len(s)))
            /\ Len(s) - dot_at(s) <= 2

float_of(s) ==
    IF dot_at(s) = 0 THEN int_of(s) * 100
    ELSE LET frac == SubSeq(s, dot_at(s) + 1, Len(s))
         IN  int_of(SubSeq(s, 1, dot_at(s) - 1)) * 100
             + int_of(frac) * (IF Len(frac) = 1 THEN 10 ELSE 1)

\* f"{x:.2f}" of a number carried in hundredths
format_2f(x) == str_of(x \div 100) \o <<".">> \o two_digits(x % 100)

\* the exception the sort key raises on an object of the feed, "" when none:
\* float(x["close_approach_data"][0]["miss_distance"]["kilometers"])
sort_key_error(x) ==
    IF "close_approach_data" \notin DOMAIN x THEN "KeyError"
    ELSE IF x.close_approach_data = <<>> THEN "IndexError"
    ELSE IF "miss_distance" \notin DOMAIN x.close_approach_data[1] THEN "KeyError"
    ELSE IF "kilometers" \notin DOMAIN x.close_approach_data[1].miss_distance THEN "KeyError"
    ELSE IF ~float_ok(x.close_approach_data[1].miss_distance.kilometers) THEN "ValueError"
    ELSE ""

\* mutant: the miss distances compared as strings.  The key is the rank of
\* the string in lexicographic order ("." before the digits, a prefix before
\* its extensions), for strings of at most six characters.
sort_key_as_string(x) ==
    LET s == x.close_approach_data[1].miss_distance.kilometers
        code(i) == IF i > Len(s) THEN 0
                   ELSE IF s[i] = "." THEN 1
                   ELSE digit_value(s[i]) + 2
    IN  ((((code(1) * 12 + code(2)) * 12 + code(3)) * 12 + code(4)) * 12 + code(5)) * 12
        + code(6)

sort_key(x) == float_of(x.close_approach_data[1].miss_distance.kilometers)

\* one step of the stable sort: x goes after every element whose key is not
\* greater than its own
insert_by_key(sorted, x) ==
    LET k == Cardinality({i \in 1..Len(sorted) : sort_key(sorted[i]) <= sort_key(x)})
    IN  SubSeq(sorted, 1, k) \o <<x>> \o SubSeq(sorted, k + 1, Len(sorted))

RECURSIVE sort_by_miss_distance(_)
\* all_neo.sort(key=lambda x: float(...)): ascending and stable
sort_by_miss_distance(all_neo) ==
    IF all_neo = <<>> THEN <<>>
    ELSE insert_by_key(sort_by_miss_distance(SubSeq(all_neo, 1, Len(all_neo) - 1)),
                       all_neo[Len(all_neo)])

RECURSIVE flatten(_)
\* for day in data["near_earth_objects"]: all_neo.extend(...[day])
flatten(days) ==
    IF days = <<>> THEN <<>>
    ELSE days[1].objects \o flatten(Tail(days))

\* seq[:n], n of either sign
slice_to(seq, n) ==
    IF n >= 0 THEN Take(seq, n)
    ELSE Take(seq, IF Len(seq) + n > 0 THEN Len(seq) + n ELSE 0)

neo_ok(neo) ==
    /\ {"name", "id", "estimated_diameter", "is_potentially_hazardous_asteroid"}
           \subseteq DOMAIN neo
    /\ "kilometers" \in DOMAIN neo.estimated_diameter
    /\ {"estimated_diameter_min", "estimated_diameter_max"}
           \subseteq DOMAIN neo.estimated_diameter.kilometers
    /\ "close_approach_date" \in DOMAIN neo.close_approach_data[1]
    /\ "relative_velocity" \in DOMAIN neo.close_approach_data[1]
    /\ "kilometers_per_hour" \in DOMAIN neo.close_approach_data[1].relative_velocity

neo_descriptor(neo) ==
    [name                     |-> neo.name,
     id                       |-> neo.id,
     diameter_min_km          |-> neo.estimated_diameter.kilometers.estimated_diameter_min,
     diameter_max_km          |-> neo.estimated_diameter.kilometers.estimated_diameter_max,
     is_potentially_hazardous |-> neo.is_potentially_hazardous_asteroid,
     close_approach_date      |-> neo.close_approach_data[1].close_approach_date,
     miss_distance_km         |-> neo.close_approach_data[1].miss_distance.kilometers,
     relative_velocity_kph    |-> neo.close_approach_data[1].relative_velocity.kilometers_per_hour]

\* selected_neo = all_neo[:count], all_neo flattened and sorted
select_neo(data, count) ==
    slice_to(sort_by_miss_distance(flatten(data.near_earth_objects)), count)

\* the part of get_neo_objects after data = response.json()
neo_record(start_date, end_date, count, data, io) ==
    IF "near_earth_objects" \notin DOMAIN data THEN Raise("KeyError", io)
    ELSE LET all_neo == flatten(data.near_earth_objects)
         IN  IF \E i \in 1..Len(all_neo) : sort_key_error(all_neo[i]) # ""
             THEN Raise(sort_key_error(all_neo[CHOOSE i \in 1..Len(all_neo) :
                            /\ sort_key_error(all_neo[i]) # ""
                            /\ \A j \in 1..(i - 1) : sort_key_error(all_neo[j]) = ""]),
                        io)
             ELSE LET selected_neo == select_neo(data, count)
                  IN  IF "element_count" \notin DOMAIN data THEN Raise("KeyError", io)
                      ELSE IF \E i \in 1..Len(selected_neo) : ~neo_ok(selected_neo[i])
                      THEN Raise("KeyError", io)
                      ELSE Return([total_count |-> data.element_count,
                                   period |-> start_date \o <<" ","t","o"," ">> \o end_date,
                                   near_earth_objects |->
                                       [i \in 1..Len(selected_neo) |->
                                           neo_descriptor(selected_neo[i])]],
                                  io)

\* count=5, the default of get_neo_objects
DefaultCount == 5

\* timedelta(days=7)
FeedDays == 7

\* datetime.MAXYEAR
MAXYEAR == 9999

\* mutant: the feed parsed whatever the status of the response
get_neo_objects_unchecked(date, count, h) ==
    LET d == IF date = None THEN Today ELSE date
    IN  IF ~strptime_ok(d) THEN Raise("ValueError", <<>>)
        ELSE LET end_date == strftime(add_days(date_fields(d), FeedDays), <<"-">>)
                 req == <<Get("neo-feed", d, None, end_date)>>
                 response == h[1]
             IN  IF response.raises THEN Raise("ConnectionError", req)
                 ELSE IF response.json.t = "invalid"
                 THEN Raise("JSONDecodeError", req \o <<Json>>)
                 ELSE IF response.json.t # "dict"
                 THEN Raise("TypeError", req \o <<Json>>)
                 ELSE neo_record(d, end_date, count, response.json.v, req \o <<Json>>)

get_neo_objects(date, count, h) ==
    LET d == IF date = None THEN Today ELSE date
    IN  IF ~strptime_ok(d) THEN Raise("ValueError", <<>>)
        ELSE IF add_days(date_fields(d), FeedDays).year > MAXYEAR
        THEN Raise("OverflowError", <<>>)
        ELSE LET end_date == strftime(add_days(date_fields(d), FeedDays), <<"-">>)
                 req == <<Get("neo-feed", d, None, end_date)>>
                 response == h[1]
             IN  IF response.raises THEN Raise("ConnectionError", req)
                 ELSE IF response.status_code # 200
                 THEN Return(api_error(response), req)
                 ELSE IF response.json.t = "invalid"
                 THEN Raise("JSONDecodeError", req \o <<Json>>)
                 ELSE IF response.json.t # "dict"
                 THEN Raise("TypeError", req \o <<Json>>)
                 ELSE neo_record(d, end_date, count, response.json.v, req \o <<Json>>)

(***************************************************************************)
(* Earth imagery (EPIC), the fetcher the router calls                      *)
(***************************************************************************)

NASA_API_KEY == <<"v","r","L","a","r","P","v","u","n","i","s","r","x","e","R","S","A","F","e","i","0","A","a","D","Y","9","h","C","t","e","n","V","t","6","h","t","f","V","y","o">>

\* data[:3]
EpicLimit == 3

image_ok(img) ==
    /\ {"identifier", "caption", "image", "date", "centroid_coordinates"} \subseteq DOMAIN img
    /\ {"lat", "lon"} \subseteq DOMAIN img.centroid_coordinates

image_record(img, formatted_date) ==
    [id        |-> img.identifier,
     caption   |-> img.caption,
     image_url |-> <<"h","t","t","p","s",":","/","/","a","p","i",".","n","a","s","a",".","g","o","v","/","E","P","I","C","/","a","r","c","h","i","v","e","/","n","a","t","u","r","a","l","/">> \o formatted_date
                   \o <<"/","p","n","g","/">> \o img.image \o <<".","p","n","g","?","a","p","i","_","k","e","y","=">> \o NASA_API_KEY,
     date      |-> img.date,
     centroid_coordinates |-> [lat |-> img.centroid_coordinates.lat,
                               lon |-> img.centroid_coordinates.lon]]

\* the part of get_epic_imagery after data = response.json() of the second
\* request; a dict body (an error payload) is not sliceable
epic_record(date, json, io) ==
    IF json.v = <<>> THEN
        Return([message |-> <<"N","o"," ","E","P","I","C"," ","i","m","a","g","e","r","y"," ","a","v","a","i","l","a","b","l","e"," ","f","o","r"," ">> \o date], io)
    ELSE IF ~strptime_ok(date) THEN Raise("ValueError", io)
    ELSE IF json.t # "list" THEN Raise("TypeError", io)
    ELSE LET formatted_date == strftime(date_fields(date), <<"/">>)
             images == Take(json.v, EpicLimit)
         IN  IF \E i \in 1..Len(images) : ~image_ok(images[i])
             THEN Raise("KeyError", io)
             ELSE Return([date |-> date,
                          image_count |-> Len(json.v),
                          images |-> [i \in 1..Len(images) |->
                                         image_record(images[i], formatted_date)]],
                         io)

\* the second request of get_epic_imagery, for the date chosen
epic_for_date(date, response, io) ==
    LET req == io \o <<Get("epic-date", date, None, None)>>
    IN  IF response.raises THEN Raise("ConnectionError", req)
        ELSE IF response.status_code # 200 THEN Return(api_error(response), req)
        ELSE IF response.json.t = "invalid" THEN Raise("JSONDecodeError", req \o <<Json>>)
        ELSE epic_record(date, response.json, req \o <<Json>>)

\* The list of available dates is a list of date strings; on a dict body (an
\* error payload, of which no date is a key) available_dates[0] raises.
get_epic_imagery(date, h) ==
    LET req == <<Get("epic-available", None, None, None)>>
        response == h[1]
    IN  IF response.raises THEN Raise("ConnectionError", req)
        ELSE IF response.status_code # 200 THEN Return(api_error(response), req)
        ELSE IF response.json.t = "invalid" THEN Raise("JSONDecodeError", req \o <<Json>>)
        ELSE IF response.json.t # "list" THEN Raise("KeyError", req \o <<Json>>)
        ELSE LET available_dates == response.json.v
             IN  IF date = None \/ ~(\E i \in 1..Len(available_dates) :
                                          available_dates[i] = date)
                 THEN IF available_dates = <<>>
                      THEN Raise("IndexError", req \o <<Json>>)
                      ELSE epic_for_date(available_dates[1], h[2], req \o <<Json>>)
                 ELSE epic_for_date(date, h[2], req \o <<Json>>)

(***************************************************************************)
(* NasaApiTool: the tool-call interface                                    *)
(***************************************************************************)

\* str.strip(), for blanks
RECURSIVE strip(_)
strip(s) ==
    IF s # <<>> /\ s[1] = " " THEN strip(Tail(s))
    ELSE IF s # <<>> /\ s[Len(s)] = " " THEN strip(SubSeq(s, 1, Len(s) - 1))
    ELSE s

_normalize_endpoint(name) ==
    LET endpoint == strip(lower(name))
    IN  IF endpoint \in {<<"a","p","o","d">>, <<"a","s","t","r","o","n","o","m","y"," ","p","i","c","t","u","r","e"," ","o","f"," ","t","h","e"," ","d","a","y">>,
                         <<"a","s","t","r","o","n","o","m","y","-","p","i","c","t","u","r","e","-","o","f","-","t","h","e","-","d","a","y">>, <<"a","s","t","r","o","n","o","m","y","_","p","i","c","t","u","r","e","_","o","f","_","t","h","e","_","d","a","y">>}
        THEN <<"a","p","o","d">>
        ELSE IF endpoint \in {<<"m","a","r","s","_","p","h","o","t","o","s">>, <<"m","a","r","s"," ","p","h","o","t","o","s">>, <<"m","a","r","s","-","p","h","o","t","o","s">>,
                              <<"m","a","r","s","_","r","o","v","e","r">>, <<"m","a","r","s"," ","r","o","v","e","r">>, <<"m","a","r","s","-","r","o","v","e","r">>}
        THEN <<"m","a","r","s","_","p","h","o","t","o","s">>
        ELSE IF endpoint \in {<<"n","e","o">>, <<"n","e","a","r"," ","e","a","r","t","h"," ","o","b","j","e","c","t","s">>, <<"n","e","a","r","-","e","a","r","t","h","-","o","b","j","e","c","t","s">>,
                              <<"n","e","a","r","_","e","a","r","t","h","_","o","b","j","e","c","t","s">>}
        THEN <<"n","e","o">>
        ELSE IF endpoint \in {<<"e","a","r","t","h">>, <<"e","a","r","t","h"," ","i","m","a","g","e","r","y">>, <<"e","a","r","t","h","-","i","m","a","g","e","r","y">>,
                              <<"e","a","r","t","h","_","i","m","a","g","e","r","y">>}
        THEN <<"e","a","r","t","h">>
        ELSE endpoint

_get_astronomy_picture(date, h) ==
    LET req == <<Get("apod", date, None, None)>>
        response == h[1]
    IN  IF response.raises THEN Raise("ConnectionError", req)
        ELSE IF response.json.t = "invalid" THEN Raise("JSONDecodeError", req \o <<Json>>)
        ELSE IF response.json.t # "dict" THEN Raise("AttributeError", req \o <<Json>>)
        ELSE Return(apod_record(response.json.v), req \o <<Json>>)

\* the camera, when given, only adds a parameter to the URL
_get_mars_photos(rover, date, camera, h) ==
    LET req == <<Get("mars-photos", date, rover, None)>>
        response == h[1]
    IN  IF response.raises THEN Raise("ConnectionError", req)
        ELSE IF response.json.t = "invalid" THEN Raise("JSONDecodeError", req \o <<Json>>)
        ELSE IF response.json.t # "dict" THEN Raise("AttributeError", req \o <<Json>>)
        ELSE mars_record(rover, date, response.json.v, req \o <<Json>>)

_get_near_earth_objects(date, count, h) ==
    IF ~strptime_ok(date) THEN Raise("ValueError", <<>>)
    ELSE IF add_days(date_fields(date), FeedDays).year > MAXYEAR
    THEN Raise("OverflowError", <<>>)
    ELSE LET end_date == strftime(add_days(date_fields(date), FeedDays), <<"-">>)
             req == <<Get("neo-feed", date, None, end_date)>>
             response == h[1]
         IN  IF response.raises THEN Raise("ConnectionError", req)
             ELSE IF response.json.t = "invalid"
             THEN Raise("JSONDecodeError", req \o <<Json>>)
             ELSE IF response.json.t # "dict"
             THEN Raise("TypeError", req \o <<Json>>)
             ELSE neo_record(date, end_date, count, response.json.v, req \o <<Json>>)

\* the record of the bare except of _get_earth_imagery
no_coverage ==
    [message |-> <<"E","a","r","t","h"," ","i","m","a","g","e","r","y"," ","m","a","y"," ","n","o","t"," ","b","e"," ","a","v","a","i","l","a","b","l","e"," ","f","o","r"," ","t","h","e"," ","s","p","e","c","i","f","i","e","d"," ","d","a","t","e","/","l","o","c","a","t","i","o","n">>,
     note    |-> <<"T","h","e"," ","E","a","r","t","h"," ","i","m","a","g","e","r","y"," ","A","P","I"," ","h","a","s"," ","l","i","m","i","t","e","d"," ","c","o","v","e","r","a","g","e"," ","a","n","d"," ","m","a","y"," ","r","e","t","u","r","n"," ","e","r","r","o","r","s"," ","f","o","r"," ","s","o","m","e"," ","d","a","t","e","s",".">>]

\* lat = 40.71, lon = -74.00, in hundredths
_get_earth_imagery(date, h) ==
    LET req == <<Get("earth-imagery", date, None, None)>>
        response == h[1]
    IN  IF response.raises THEN Return(no_coverage, req)
        ELSE IF response.json.t # "dict" THEN Return(no_coverage, req \o <<Json>>)
        ELSE Return([date |-> date,
                     location |-> <<"N","e","w"," ","Y","o","r","k"," ","C","i","t","y">>,
                     coordinates |-> [lat |-> 4071, lon |-> -7400],
                     image_url |-> get(response.json.v, "url",
                                       <<"N","o"," ","i","m","a","g","e"," ","a","v","a","i","l","a","b","l","e"," ","f","o","r"," ","t","h","i","s"," ","d","a","t","e","/","l","o","c","a","t","i","o","n">>)],
                    req \o <<Json>>)

\* str(e) of a caught exception, carried as the name of the exception
str_exc(o) == [error |-> <<o.exc>>]

\* the fetcher NasaApiTool.call dispatches to
call_dispatch(endpoint, date, params, h) ==
    IF endpoint = <<"a","p","o","d">> THEN _get_astronomy_picture(date, h)
    ELSE IF endpoint = <<"m","a","r","s","_","p","h","o","t","o","s">>
    THEN _get_mars_photos(get(params, "rover", <<"c","u","r","i","o","s","i","t","y">>), date,
                          get(params, "camera", None), h)
    ELSE IF endpoint = <<"n","e","o">>
    THEN _get_near_earth_objects(date, get(params, "count", DefaultCount), h)
    ELSE IF endpoint = <<"e","a","r","t","h">> THEN _get_earth_imagery(date, h)
    ELSE Return([error |-> <<"I","n","v","a","l","i","d"," ","e","n","d","p","o","i","n","t"," ","s","p","e","c","i","f","i","e","d",":"," ">> \o endpoint], <<>>)

\* NasaApiTool.call(params): every exception of a fetcher becomes an error record
NasaApiTool_call(params, h) ==
    LET endpoint == _normalize_endpoint(get(params, "endpoint", <<>>))
        date == get(params, "date", Today)
        o == call_dispatch(endpoint, date, params, h)
    IN  IF o.kind = "raise" THEN Return(str_exc(o), o.io) ELSE o

(***************************************************************************)
(* Formatter                                                               *)
(***************************************************************************)

\* What the formatter did: the text it returned, or the exception it raised,
\* and the fields of the record whose values it read.
Formatted(text, reads) == [kind |-> "return", value |-> text, exc |-> "", reads |-> reads]
FormatRaise(exc, reads) == [kind |-> "raise", value |-> <<>>, exc |-> exc, reads |-> reads]

\* a value inside an f-string: str(None) is "None"
to_str(x) == IF x = None THEN <<"N","o","n","e">> ELSE x

RECURSIVE join(_, _)
\* sep.join(lines)
join(sep, lines) ==
    IF lines = <<>> THEN <<>>
    ELSE IF Len(lines) = 1 THEN lines[1]
    ELSE lines[1] \o sep \o join(sep, Tail(lines))

\* explanation[:500], len(explanation) > 500
TruncLen == 500

\* photos[:3], objects[:3], images[:3]
FormatLimit == 3

apod_fields == {"title", "date", "image_url", "explanation", "copyright"}

format_apod(nasa_data) ==
    IF ~({"title", "date", "image_url", "explanation"} \subseteq DOMAIN nasa_data)
    THEN FormatRaise("KeyError", DOMAIN nasa_data \cap apod_fields)
    ELSE IF nasa_data.explanation = None
    THEN FormatRaise("TypeError", {"title", "date", "image_url", "explanation"})
    ELSE Formatted(
        <<"T","o","d","a","y","'","s"," ","A","s","t","r","o","n","o","m","y"," ","P","i","c","t","u","r","e"," ","o","f"," ","t","h","e"," ","D","a","y"," ","i","s"," ","t","i","t","l","e","d"," ","\"">> \o to_str(nasa_data.title)
        \o <<"\""," ","f","r","o","m"," ">> \o to_str(nasa_data.date)
        \o <<".","\n","\n","I","m","a","g","e"," ","U","R","L",":"," ">> \o to_str(nasa_data.image_url)
        \o <<"\n","\n","D","e","s","c","r","i","p","t","i","o","n",":"," ">> \o Take(nasa_data.explanation, TruncLen)
        \o (IF Len(nasa_data.explanation) > TruncLen THEN <<".",".",".">> ELSE <<>>)
        \o <<"\n","\n","C","r","e","d","i","t",":"," ">> \o to_str(get(nasa_data, "copyright", <<"N","A","S","A">>))
        \o <<"\n","\n","Y","o","u"," ","c","a","n"," ","v","i","e","w"," ","t","h","i","s"," ","i","m","a","g","e"," ","a","n","d"," ","m","o","r","e"," ","a","t"," ","N","A","S","A","'","s"," ","o","f","f","i","c","i","a","l"," ","A","P","O","D"," ","w","e","b","s","i","t","e",":"," ","h","t","t","p","s",":","/","/","a","p","o","d",".","n","a","s","a",".","g","o","v","/","a","p","o","d","/","\n">>,
        apod_fields \cap DOMAIN nasa_data)

photo_line(i, photo) ==
    <<"-"," ","P","h","o","t","o"," ">> \o str_of(i) \o <<":"," ","T","a","k","e","n"," ","b","y"," ">> \o to_str(photo.camera)
    \o <<" ","o","n"," ">> \o to_str(photo.earth_date)
    \o <<" ","(","S","o","l"," ">> \o str_of(photo.sol) \o <<")","\n"," "," ","U","R","L",":"," ">> \o to_str(photo.img_src)

\* the branch on "message" repeats the test made before the templates
format_mars(nasa_data) ==
    IF "message" \in DOMAIN nasa_data
    THEN Formatted(<<"N","A","S","A"," ","M","a","r","s"," ","R","o","v","e","r"," ","D","a","t","a",":"," ">> \o to_str(nasa_data.message), {"message"})
    ELSE IF ~({"photos", "photo_count", "rover", "date"} \subseteq DOMAIN nasa_data)
    THEN FormatRaise("KeyError", DOMAIN nasa_data \cap {"photos", "photo_count", "rover", "date"})
    ELSE LET photos == Take(nasa_data.photos, FormatLimit)
             photos_text == join(<<"\n">>, [i \in 1..Len(photos) |-> photo_line(i, photos[i])])
         IN  Formatted(
                <<"I"," ","f","o","u","n","d"," ">> \o str_of(nasa_data.photo_count)
                \o <<" ","r","e","c","e","n","t"," ","p","h","o","t","o","s"," ","f","r","o","m"," ","t","h","e"," ">> \o to_str(nasa_data.rover)
                \o <<" ","M","a","r","s"," ","r","o","v","e","r",","," ","d","a","t","e","d"," ">> \o to_str(nasa_data.date)
                \o <<".","\n","\n","H","e","r","e"," ","a","r","e"," ","s","o","m","e"," ","o","f"," ","t","h","e","m",":","\n","\n">> \o photos_text
                \o <<"\n","\n","Y","o","u"," ","c","a","n"," ","f","i","n","d"," ","m","o","r","e"," ","M","a","r","s"," ","r","o","v","e","r"," ","p","h","o","t","o","s"," ","o","n"," ","N","A","S","A","'","s"," ","w","e","b","s","i","t","e",":"," ","h","t","t","p","s",":","/","/","m","a","r","s",".","n","a","s","a",".","g","o","v","/","\n">>,
                {"photos", "photo_count", "rover", "date"})

\* the two code points of the warning sign, each one character
WarningSign == <<"U+26A0", "U+FE0F">>

object_line(obj) ==
    to_str(obj.name) \o <<":"," ">> \o format_2f(obj.diameter_min_km) \o <<"-">>
    \o format_2f(obj.diameter_max_km) \o <<" ","k","m"," ","d","i","a","m","e","t","e","r",","," ">>
    \o <<"p","a","s","s","i","n","g"," ","o","n"," ">> \o to_str(obj.close_approach_date)
    \o <<" ","a","t"," ","a"," ","d","i","s","t","a","n","c","e"," ","o","f"," ">> \o format_2f(float_of(obj.miss_distance_km)) \o <<" ","k","m",","," ">>
    \o (IF obj.is_potentially_hazardous
        THEN WarningSign \o <<" ","P","o","t","e","n","t","i","a","l","l","y"," ","h","a","z","a","r","d","o","u","s">>
        ELSE <<"N","o","t"," ","c","o","n","s","i","d","e","r","e","d"," ","h","a","z","a","r","d","o","u","s">>)

format_neo(nasa_data) ==
    IF "near_earth_objects" \notin DOMAIN nasa_data
    THEN FormatRaise("KeyError", {})
    ELSE LET objects == Take(nasa_data.near_earth_objects, FormatLimit)
             objects_text == join(<<"\n">>, [i \in 1..Len(objects) |->
                                              <<"-"," ">> \o object_line(objects[i])])
         IN  IF \E i \in 1..Len(objects) : ~float_ok(objects[i].miss_distance_km)
             THEN FormatRaise("ValueError", {"near_earth_objects"})
             ELSE IF ~({"total_count", "period"} \subseteq DOMAIN nasa_data)
             THEN FormatRaise("KeyError", {"near_earth_objects"})
             ELSE Formatted(
                <<"I"," ","f","o","u","n","d"," ","d","a","t","a"," ","o","n"," ">> \o str_of(nasa_data.total_count)
                \o <<" ","n","e","a","r","-","E","a","r","t","h"," ","o","b","j","e","c","t","s"," ","f","r","o","m"," ">> \o to_str(nasa_data.period)
                \o <<".","\n","\n","H","e","r","e"," ","a","r","e"," ","t","h","e"," ","c","l","o","s","e","s","t"," ","a","p","p","r","o","a","c","h","e","s",":","\n","\n">> \o objects_text
                \o <<"\n","\n","T","h","i","s"," ","i","n","f","o","r","m","a","t","i","o","n"," ","c","o","m","e","s"," ","f","r","o","m"," ","N","A","S","A","'","s"," ","N","e","a","r"," ","E","a","r","t","h"," ","O","b","j","e","c","t"," ","W","e","b"," ","S","e","r","v","i","c","e"," ","(","N","e","o","W","s",")",".","\n">>,
                {"near_earth_objects", "total_count", "period"})

image_line(i, img) ==
    <<"-"," ","I","m","a","g","e"," ">> \o str_of(i) \o <<":"," ">> \o to_str(img.caption)
    \o <<" ","(","a","t"," ","c","o","o","r","d","i","n","a","t","e","s",":"," ">> \o to_str(img.centroid_coordinates.lat) \o <<","," ">>
    \o to_str(img.centroid_coordinates.lon) \o <<")","\n"," "," ","U","R","L",":"," ">> \o to_str(img.image_url)

format_epic(nasa_data) ==
    IF "message" \in DOMAIN nasa_data
    THEN Formatted(<<"N","A","S","A"," ","E","P","I","C"," ","D","a","t","a",":"," ">> \o to_str(nasa_data.message), {"message"})
    ELSE IF ~({"images", "image_count", "date"} \subseteq DOMAIN nasa_data)
    THEN FormatRaise("KeyError", DOMAIN nasa_data \cap {"images", "image_count", "date"})
    ELSE LET images == Take(nasa_data.images, FormatLimit)
             images_text == join(<<"\n">>, [i \in 1..Len(images) |-> image_line(i, images[i])])
         IN  Formatted(
                <<"I"," ","f","o","u","n","d"," ">> \o str_of(nasa_data.image_count)
                \o <<" ","E","a","r","t","h"," ","i","m","a","g","e","s"," ","f","r","o","m"," ","N","A","S","A","'","s"," ","E","P","I","C"," ","c","a","m","e","r","a"," ","f","o","r"," ">> \o to_str(nasa_data.date)
                \o <<".","\n","\n","H","e","r","e"," ","a","r","e"," ","s","o","m","e"," ","o","f"," ","t","h","e","m",":","\n","\n">> \o images_text
                \o <<"\n","\n","T","h","e","s","e"," ","i","m","a","g","e","s"," ","c","o","m","e"," ","f","r","o","m"," ","N","A","S","A","'","s"," ","E","a","r","t","h"," ","P","o","l","y","c","h","r","o","m","a","t","i","c"," ","I","m","a","g","i","n","g"," ","C","a","m","e","r","a"," ","(","E","P","I","C",")",".","\n">>,
                {"images", "image_count", "date"})

\* the template of each category
format_template(nasa_data, data_type) ==
    IF data_type = APOD THEN format_apod(nasa_data)
    ELSE IF data_type = MARS THEN format_mars(nasa_data)
    ELSE IF data_type = NEO THEN format_neo(nasa_data)
    ELSE IF data_type = EPIC THEN format_epic(nasa_data)
    ELSE Formatted(<<>>, {})

\* mutant: the template of the category rendered without the tests for an
\* "error" or "message" field
format_without_short_circuit(user_query, nasa_data, data_type) ==
    format_template(nasa_data, data_type)

format_nasa_response(user_query, nasa_data, data_type) ==
    IF "error" \in DOMAIN nasa_data
    THEN Formatted(<<"S","o","r","r","y",","," ","I"," ","e","n","c","o","u","n","t","e","r","e","d"," ","a","n"," ","e","r","r","o","r"," ","w","h","e","n"," ","t","r","y","i","n","g"," ","t","o"," ","f","e","t","c","h"," ","N","A","S","A"," ","d","a","t","a",":"," ">>
                   \o to_str(nasa_data.error), {"error"})
    ELSE IF "message" \in DOMAIN nasa_data
    THEN Formatted(<<"N","A","S","A"," ","A","P","I"," ","m","e","s","s","a","g","e",":"," ">> \o to_str(nasa_data.message), {"message"})
    ELSE format_template(nasa_data, data_type)

(***************************************************************************)
(* get_nasa_response and process_query                                     *)
(***************************************************************************)

\* The fetcher call of get_nasa_response, for the route chosen.  The outcome
\* of the fetcher is the outcome of get_nasa_response: its value is the
\* nasa_data of the pair (data_type, nasa_data).
get_nasa_response(user_query, h) ==
    LET r == Route(user_query)
    IN  IF r.data_type = APOD THEN get_astronomy_picture(r.date, h)
        ELSE IF r.data_type = MARS THEN get_mars_photos(r.rover, r.date, h)
        ELSE IF r.data_type = NEO THEN get_neo_objects(r.date, DefaultCount, h)
        ELSE IF r.data_type = EPIC THEN get_epic_imagery(r.date, h)
        ELSE Return(None, <<>>)

\* f"NASA {data_type.upper()} API"
source_label(data_type) == <<"N","A","S","A"," ">> \o upper(data_type) \o <<" ","A","P","I">>

\* The outcome of process_query(query): kind "none" when it returns None,
\* "return" with the dict {response, source, data}, or "raise" when the fetcher
\* or the formatter raised.  route, fetched and formatted keep what the router,
\* the fetcher and the formatter did.
NoFormat == Formatted(<<>>, {})

process_query(query, h) ==
    LET r == Route(query)
        fetched == get_nasa_response(query, h)
    IN  IF fetched.kind = "raise"
        THEN [kind |-> "raise", exc |-> fetched.exc, value |-> EmptyDict,
              route |-> r, fetched |-> fetched, formatted |-> NoFormat]
        ELSE IF r.data_type = None \/ r.data_type = <<>> \/ DOMAIN fetched.value = {}
        THEN [kind |-> "none", exc |-> "", value |-> EmptyDict,
              route |-> r, fetched |-> fetched, formatted |-> NoFormat]
        ELSE LET formatted == format_nasa_response(query, fetched.value, r.data_type)
             IN  IF formatted.kind = "raise"
                 THEN [kind |-> "raise", exc |-> formatted.exc, value |-> EmptyDict,
                       route |-> r, fetched |-> fetched, formatted |-> formatted]
                 ELSE [kind |-> "return", exc |-> "",
                       value |-> [response |-> formatted.value,
                                  source |-> source_label(r.data_type),
                                  data |-> fetched.value],
                       route |-> r, fetched |-> fetched, formatted |-> formatted]

(***************************************************************************)
(* Inputs: query texts and provider responses                              *)
(***************************************************************************)

\* The pieces query texts are made of: keywords of each category in several
\* letter cases, rover names, words that hold a keyword inside them or none
\* at all, and date tokens (a date, a second date, a date of the right shape
\* that is no calendar day, a token of the wrong shape).
Pieces ==
    { <<"A","P","O","D"," ">>, <<"S","p","a","c","e"," ","P","h","o","t","o"," ">>, <<"M","a","r","s"," ">>, <<"C","u","r","i","o","s","i","t","y"," ">>, <<"p","e","r","s","e","v","e","r","a","n","c","e"," ">>,
      <<"S","p","i","r","i","t"," ">>, <<"O","p","p","o","r","t","u","n","i","t","y"," ">>, <<"a","s","t","e","r","o","i","d"," ">>, <<"s","o","m","e","o","n","e"," ">>, <<"E","a","r","t","h"," ">>, <<"b","l","u","e"," ","m","a","r","b","l","e"," ">>,
      <<"b","l","a","c","k"," ","h","o","l","e","s"," ">>, <<"r","o","v","e","r"," ","p","h","o","t","o","s"," ","2","0","2","2","-","1","2","-","2","5"," ">>, <<"o","n"," ","1","9","9","9","-","0","1","-","3","1",".">>, <<"2","0","2","1","-","0","2","-","3","0"," ">>,
      <<"2","0","2","2","-","1","-","5"," ">> }

\* the number of pieces of a query text
MaxPieces == 2

RECURSIVE Texts(_)
Texts(n) ==
    IF n = 0 THEN {<<>>}
    ELSE Texts(n - 1) \cup {t \o p : t \in Texts(n - 1), p \in Pieces}

\* the batch-test table: the query and the expected_api of each case
TEST_CASES ==
    << [id |-> 1, query |-> <<"W","h","a","t"," ","i","s"," ","t","o","d","a","y","'","s"," ","a","s","t","r","o","n","o","m","y"," ","p","i","c","t","u","r","e"," ","o","f"," ","t","h","e"," ","d","a","y","?">>,
        expected_api |-> <<"A","P","O","D">>],
       [id |-> 2, query |-> <<"S","h","o","w"," ","m","e"," ","N","A","S","A","'","s"," ","p","i","c","t","u","r","e"," ","f","r","o","m"," ","2","0","2","2","-","1","2","-","2","5">>,
        expected_api |-> <<"A","P","O","D">>],
       [id |-> 3, query |-> <<"W","h","a","t"," ","p","h","o","t","o","s"," ","d","i","d"," ","C","u","r","i","o","s","i","t","y"," ","r","o","v","e","r"," ","t","a","k","e"," ","r","e","c","e","n","t","l","y","?">>,
        expected_api |-> <<"M","a","r","s">>],
       [id |-> 4, query |-> <<"S","h","o","w"," ","m","e"," ","p","i","c","t","u","r","e","s"," ","f","r","o","m"," ","P","e","r","s","e","v","e","r","a","n","c","e"," ","r","o","v","e","r"," ","o","n"," ","M","a","r","s">>,
        expected_api |-> <<"M","a","r","s">>],
       [id |-> 5, query |-> <<"A","r","e"," ","t","h","e","r","e"," ","a","n","y"," ","a","s","t","e","r","o","i","d","s"," ","p","a","s","s","i","n","g"," ","n","e","a","r"," ","E","a","r","t","h"," ","t","h","i","s"," ","w","e","e","k","?">>,
        expected_api |-> <<"N","E","O">>],
       [id |-> 6, query |-> <<"T","e","l","l"," ","m","e"," ","a","b","o","u","t"," ","p","o","t","e","n","t","i","a","l","l","y"," ","h","a","z","a","r","d","o","u","s"," ","a","s","t","e","r","o","i","d","s">>,
        expected_api |-> <<"N","E","O">>],
       [id |-> 7, query |-> <<"S","h","o","w"," ","m","e"," ","i","m","a","g","e","s"," ","o","f"," ","E","a","r","t","h"," ","f","r","o","m"," ","s","p","a","c","e">>,
        expected_api |-> <<"E","P","I","C">>],
       [id |-> 8, query |-> <<"W","h","a","t"," ","d","o","e","s"," ","o","u","r"," ","p","l","a","n","e","t"," ","l","o","o","k"," ","l","i","k","e"," ","f","r","o","m"," ","s","p","a","c","e","?">>,
        expected_api |-> <<"E","P","I","C">>],
       [id |-> 9,
        query |-> <<"T","e","l","l"," ","m","e"," ","a","b","o","u","t"," ","t","h","e"," ","M","a","r","s"," ","r","o","v","e","r"," ","a","n","d"," ","s","h","o","w"," ","m","e"," ","t","o","d","a","y","'","s"," ","a","s","t","r","o","n","o","m","y"," ","p","i","c","t","u","r","e">>,
        expected_api |-> <<"A","P","O","D"," ","o","r"," ","M","a","r","s">>],
       [id |-> 10, query |-> <<"T","e","l","l"," ","m","e"," ","a","b","o","u","t"," ","b","l","a","c","k"," ","h","o","l","e","s">>,
        expected_api |-> None] >>

\* the query texts: the texts made of pieces and the queries of the table
Queries == Texts(MaxPieces) \cup {TEST_CASES[i].query : i \in 1..Len(TEST_CASES)}

\* bodies of the picture-of-day endpoint
LongText == [i \in 1..(TruncLen + 1) |-> "x"]

ApodBody(explanation) ==
    Dict([title |-> <<"O","r","i","o","n">>, date |-> <<"2","0","2","2","-","1","2","-","2","5">>, explanation |-> explanation,
          url |-> <<"h","t","t","p","s",":","/","/","a","p","o","d",".","n","a","s","a",".","g","o","v","/","o",".","j","p","g">>, media_type |-> <<"i","m","a","g","e">>])

ApodBodyBare == Dict([title |-> <<"O","r","i","o","n">>, url |-> <<"h","t","t","p","s",":","/","/","a","p","o","d",".","n","a","s","a",".","g","o","v","/","o",".","j","p","g">>])

\* an error payload, as the provider sends with a non-success status
ErrorPayload == Dict([error |-> [code |-> <<"A","P","I","_","K","E","Y","_","I","N","V","A","L","I","D">>]])

ErrorResponses ==
    { NoResponse,
      Response(500, <<"I","n","t","e","r","n","a","l"," ","S","e","r","v","e","r"," ","E","r","r","o","r">>, InvalidJson),
      Response(403, <<"{","\"","e","r","r","o","r","\"",":"," ","{","\"","c","o","d","e","\"",":"," ","\"","A","P","I","_","K","E","Y","_","I","N","V","A","L","I","D","\"","}","}">>, ErrorPayload),
      Response(200, <<"<","h","t","m","l",">">>, InvalidJson),
      Response(200, <<"[","]">>, List(<<>>)),
      Response(200, <<"{","}">>, Dict(EmptyDict)) }

Ok(json) == Response(200, <<"(","b","o","d","y",")">>, json)

ApodResponses ==
    ErrorResponses \cup
    { Ok(ApodBody(<<"A"," ","n","e","b","u","l","a",".">>)), Ok(ApodBody(LongText)), Ok(ApodBodyBare) }

\* bodies of the rover-photos endpoint
Photo(i) ==
    [id |-> i, sol |-> 3000 + i,
     camera |-> [name |-> <<"M","A","S","T">>, full_name |-> <<"M","a","s","t"," ","C","a","m","e","r","a">>],
     earth_date |-> <<"2","0","2","2","-","1","2","-","2","5">>,
     img_src |-> <<"h","t","t","p","s",":","/","/","m","a","r","s",".","n","a","s","a",".","g","o","v","/">> \o str_of(i) \o <<".","j","p","g">>]

\* the most photos the provider returns
MaxPhotos == 6

PhotosBody(n) == Dict([photos |-> [i \in 1..n |-> Photo(i)]])

\* a photo without its image URL
BrokenPhotosBody == Dict([photos |-> <<[id |-> 1, sol |-> 3001]>>])

MarsResponses ==
    ErrorResponses \cup {Ok(PhotosBody(n)) : n \in 0..MaxPhotos} \cup {Ok(BrokenPhotosBody)}

\* bodies of the near-earth-objects feed
MissDistances == { <<"9",".","5">>, <<"1","0">>, <<"1","0","0">> }

NeoObject(i, km) ==
    [name |-> <<"(","2","0","2","2"," ","A","B">> \o str_of(i) \o <<")">>, id |-> str_of(i),
     estimated_diameter |->
        [kilometers |-> [estimated_diameter_min |-> 12 + i, estimated_diameter_max |-> 150]],
     is_potentially_hazardous_asteroid |-> (i % 2 = 0),
     close_approach_data |->
        << [close_approach_date |-> <<"2","0","2","2","-","1","2","-","2","6">>,
            miss_distance |-> [kilometers |-> km],
            relative_velocity |-> [kilometers_per_hour |-> <<"5","1","0","0","0",".","7">>]] >>]

\* a feed whose objects have the miss distances kms, in this order, grouped
\* in two days
FeedBody(kms) ==
    LET objs == [i \in 1..Len(kms) |-> NeoObject(i, kms[i])]
        half == Len(kms) \div 2
    IN  Dict([element_count |-> Len(kms),
              near_earth_objects |->
                 << [day |-> <<"2","0","2","2","-","1","2","-","2","5">>, objects |-> SubSeq(objs, 1, half)],
                    [day |-> <<"2","0","2","2","-","1","2","-","2","6">>, objects |-> SubSeq(objs, half + 1, Len(objs))] >>])

\* the most objects of a feed
MaxObjects == 6

RECURSIVE DistanceLists(_)
DistanceLists(n) ==
    IF n = 0 THEN {<<>>}
    ELSE DistanceLists(n - 1)
         \cup {l \o <<km>> : l \in {x \in DistanceLists(n - 1) : Len(x) = n - 1},
                             km \in MissDistances}

\* a feed with an object that has no close approach, one with a distance
\* that is no number
BrokenFeeds ==
    { Dict([element_count |-> 1,
            near_earth_objects |->
               << [day |-> <<"2","0","2","2","-","1","2","-","2","5">>,
                   objects |-> << [NeoObject(1, <<"1","0">>) EXCEPT !.close_approach_data = <<>>] >>] >>]),
      FeedBody(<< <<"1","0">>, <<"n","/","a">> >>) }

\* the feeds of the router path: of every size, distances descending
Descending(n) ==
    [i \in 1..n |-> IF i % 3 = 1 THEN <<"1","0","0">> ELSE IF i % 3 = 2 THEN <<"1","0">> ELSE <<"9",".","5">>]

NeoResponses ==
    ErrorResponses \cup {Ok(FeedBody(Descending(n))) : n \in 0..MaxObjects}
    \cup {Ok(b) : b \in BrokenFeeds}

\* bodies of the two EPIC endpoints
Image(i) ==
    [identifier |-> <<"2","0","2","2","1","2","2","5","0","0","3","1","4">> \o str_of(i), caption |-> <<"E","a","r","t","h">>,
     image |-> <<"e","p","i","c","_","1","b","_">> \o str_of(i), date |-> <<"2","0","2","2","-","1","2","-","2","5"," ","0","0",":","3","1",":","4","5">>,
     centroid_coordinates |-> [lat |-> <<"-","2","1",".","5">>, lon |-> <<"1","6","3",".","2">>]]

\* the most images the provider returns for a day
MaxImages == 4

ImagesBody(n) == List([i \in 1..n |-> Image(i)])

AvailableDates ==
    { List(<< <<"2","0","2","2","-","1","2","-","2","5">>, <<"2","0","2","2","-","1","2","-","2","4">> >>),
      List(<< <<"2","0","2","4","-","0","2","-","2","6">> >>),
      List(<<>>) }

EpicResponses ==
    {<<r>> : r \in ErrorResponses}
    \cup {<<Ok(a), r>> : a \in AvailableDates,
                         r \in {NoResponse, Response(500, <<"I","n","t","e","r","n","a","l"," ","S","e","r","v","e","r"," ","E","r","r","o","r">>, InvalidJson),
                                Response(200, <<"<","h","t","m","l",">">>, InvalidJson),
                                Ok(Dict(EmptyDict))}
                               \cup {Ok(ImagesBody(n)) : n \in 0..MaxImages}}

\* the responses the provider may give to the requests of a routed query
ResponsesFor(data_type) ==
    IF data_type = APOD THEN {<<r>> : r \in ApodResponses}
    ELSE IF data_type = MARS THEN {<<r>> : r \in MarsResponses}
    ELSE IF data_type = NEO THEN {<<r>> : r \in NeoResponses}
    ELSE IF data_type = EPIC THEN EpicResponses
    ELSE {<<>>}

(***************************************************************************)
(* SpecQuery: process_query applied to a query text                        *)
(***************************************************************************)

Pending == [kind |-> "pending"]

InitQuery ==
    /\ pc = "query"
    /\ call \in {[fn |-> "process_query", query |-> q] : q \in Queries}
    /\ http \in ResponsesFor(Route(call.query).data_type)
    /\ ret = Pending
    /\ messages = <<>>
    /\ printed = <<>>
    /\ llm = <<>>
    /\ exit_status = "running"

ProcessQuery ==
    /\ pc = "query"
    /\ ret' = process_query(call.query, http)
    /\ pc' = "returned"
    /\ UNCHANGED <<call, http, messages, printed, llm, exit_status>>

NextQuery == ProcessQuery

SpecQuery == InitQuery /\ [][NextQuery]_vars

(***************************************************************************)
(* SpecFetch: the near-earth-objects fetcher called with a count, and the  *)
(* tool-call interface NasaApiTool.call                                    *)
(***************************************************************************)

\* the largest count requested
MaxCount == 6

FeedResponses == {<<Ok(FeedBody(kms))>> : kms \in DistanceLists(MaxObjects)}

ToolParams ==
    {[endpoint |-> <<"n","e","o">>]}
    \cup {[endpoint |-> <<"N","e","a","r"," ","E","a","r","t","h"," ","O","b","j","e","c","t","s">>, date |-> <<"2","0","2","2","-","1","2","-","2","5">>, count |-> n] :
             n \in 0..MaxCount}
    \cup { [endpoint |-> <<" ","M","a","r","s","-","R","o","v","e","r"," ">>, rover |-> <<"s","p","i","r","i","t">>, date |-> <<"2","0","2","2","-","1","2","-","2","5">>],
           [endpoint |-> <<"m","a","r","s","_","p","h","o","t","o","s">>, camera |-> <<"M","A","S","T">>],
           [endpoint |-> <<"A","P","O","D">>],
           [endpoint |-> <<"e","a","r","t","h">>, date |-> <<"2","0","2","2","-","1","2","-","2","5">>],
           [endpoint |-> <<"n","e","o">>, date |-> <<"y","e","s","t","e","r","d","a","y">>],
           [endpoint |-> <<"m","o","o","n">>],
           [date |-> <<"2","0","2","2","-","1","2","-","2","5">>] }

EarthResponses ==
    ErrorResponses \cup {Ok(Dict([url |-> <<"h","t","t","p","s",":","/","/","e","a","r","t","h","e","n","g","i","n","e",".","g","o","o","g","l","e","a","p","i","s",".","c","o","m","/","t",".","p","n","g">>]))}

\* the responses the provider may give to the request of a tool call
ToolResponsesFor(params) ==
    LET endpoint == _normalize_endpoint(get(params, "endpoint", <<>>))
    IN  IF endpoint = <<"a","p","o","d">> THEN {<<r>> : r \in ApodResponses}
        ELSE IF endpoint = <<"m","a","r","s","_","p","h","o","t","o","s">> THEN {<<r>> : r \in MarsResponses}
        ELSE IF endpoint = <<"n","e","o">> THEN {<<r>> : r \in NeoResponses}
        ELSE IF endpoint = <<"e","a","r","t","h">> THEN {<<r>> : r \in EarthResponses}
        ELSE {<<>>}

InitFetch ==
    /\ pc = "fetch"
    /\ \/ /\ call \in {[fn |-> "get_neo_objects", date |-> <<"2","0","2","2","-","1","2","-","2","5">>, count |-> n] :
                          n \in 0..MaxCount}
          /\ http \in FeedResponses
       \/ /\ call \in {[fn |-> "NasaApiTool.call", params |-> p] : p \in ToolParams}
          /\ http \in ToolResponsesFor(call.params)
    /\ ret = Pending
    /\ messages = <<>>
    /\ printed = <<>>
    /\ llm = <<>>
    /\ exit_status = "running"

CallGetNeoObjects ==
    /\ pc = "fetch"
    /\ call.fn = "get_neo_objects"
    /\ ret' = get_neo_objects(call.date, call.count, http)
    /\ pc' = "returned"
    /\ UNCHANGED <<call, http, messages, printed, llm, exit_status>>

CallTool ==
    /\ pc = "fetch"
    /\ call.fn = "NasaApiTool.call"
    /\ ret' = NasaApiTool_call(call.params, http)
    /\ pc' = "returned"
    /\ UNCHANGED <<call, http, messages, printed, llm, exit_status>>

NextFetch == CallGetNeoObjects \/ CallTool

SpecFetch == InitFetch /\ [][NextFetch]_vars

(***************************************************************************)
(* SpecFormat: format_nasa_response applied to a record                    *)
(***************************************************************************)

\* the records the fetchers return on the responses above
FetchedRecords ==
    LET outcomes ==
            {get_astronomy_picture(None, <<r>>) : r \in ApodResponses}
            \cup {get_mars_photos(<<"s","p","i","r","i","t">>, None, <<r>>) : r \in MarsResponses}
            \cup {get_neo_objects(None, DefaultCount, <<r>>) : r \in NeoResponses}
            \cup {get_epic_imagery(None, h) : h \in EpicResponses}
            \cup {NasaApiTool_call(p, h) :
                     p \in {[endpoint |-> <<"e","a","r","t","h">>], [endpoint |-> <<"a","p","o","d">>],
                            [endpoint |-> <<"m","o","o","n">>]},
                     h \in {<<r>> : r \in EarthResponses}}
    IN  {o.value : o \in {x \in outcomes : x.kind = "return"}}

\* records with an "error" or "message" field beside the fields of a template
MixedRecords ==
    { [error |-> <<"A","P","I"," ","e","r","r","o","r",":"," ","4","2","9">>, title |-> <<"O","r","i","o","n">>, date |-> <<"2","0","2","2","-","1","2","-","2","5">>,
       image_url |-> <<"h","t","t","p","s",":","/","/","a","p","o","d",".","n","a","s","a",".","g","o","v","/","o",".","j","p","g">>, explanation |-> <<"A"," ","n","e","b","u","l","a",".">>],
      [message |-> <<"N","o"," ","p","h","o","t","o","s"," ","a","v","a","i","l","a","b","l","e"," ","f","o","r"," ","s","p","i","r","i","t"," ","o","n"," ","2","0","2","2","-","1","2","-","2","5">>,
       rover |-> <<"s","p","i","r","i","t">>, date |-> <<"2","0","2","2","-","1","2","-","2","5">>, photo_count |-> 0, photos |-> <<>>] }

InitFormat ==
    /\ pc = "format"
    /\ call \in {[fn |-> "format_nasa_response", user_query |-> <<"s","h","o","w"," ","m","e">>,
                  nasa_data |-> d, data_type |-> t] :
                    d \in FetchedRecords \cup MixedRecords, t \in {APOD, MARS, NEO, EPIC}}
    /\ http = <<>>
    /\ ret = Pending
    /\ messages = <<>>
    /\ printed = <<>>
    /\ llm = <<>>
    /\ exit_status = "running"

Format ==
    /\ pc = "format"
    /\ ret' = format_nasa_response(call.user_query, call.nasa_data, call.data_type)
    /\ pc' = "returned"
    /\ UNCHANGED <<call, http, messages, printed, llm, exit_status>>

NextFormat == Format

SpecFormat == InitFormat /\ [][NextFormat]_vars

(***************************************************************************)
(* The fetchers and the formatter of the chat module (mcp_chat.py), and    *)
(* SpecSites: a function of each module applied to the same arguments      *)
(***************************************************************************)

\* mcp_chat.get_astronomy_picture(date)
mcp_chat_get_astronomy_picture(date, h) ==
    LET d == IF date = None THEN Today ELSE date
        req == <<Get("apod", d, None, None)>>
        response == h[1]
    IN  IF response.raises THEN Raise("ConnectionError", req)
        ELSE IF response.json.t = "invalid" THEN Raise("JSONDecodeError", req \o <<Json>>)
        ELSE IF response.json.t # "dict" THEN Raise("AttributeError", req \o <<Json>>)
        ELSE Return(apod_record(response.json.v), req \o <<Json>>)

\* mcp_chat.get_mars_photos(rover, date)
mcp_chat_get_mars_photos(rover, date, h) ==
    LET d == IF date = None THEN Today ELSE date
        req == <<Get("mars-photos", d, rover, None)>>
        response == h[1]
    IN  IF response.raises THEN Raise("ConnectionError", req)
        ELSE IF response.json.t = "invalid" THEN Raise("JSONDecodeError", req \o <<Json>>)
        ELSE IF response.json.t # "dict" THEN Raise("AttributeError", req \o <<Json>>)
        ELSE mars_record(rover, d, response.json.v, req \o <<Json>>)

\* mcp_chat.get_neo_objects(date, count)
mcp_chat_get_neo_objects(date, count, h) ==
    LET d == IF date = None THEN Today ELSE date
    IN  IF ~strptime_ok(d) THEN Raise("ValueError", <<>>)
        ELSE IF add_days(date_fields(d), FeedDays).year > MAXYEAR
        THEN Raise("OverflowError", <<>>)
        ELSE LET end_date == strftime(add_days(date_fields(d), FeedDays), <<"-">>)
                 req == <<Get("neo-feed", d, None, end_date)>>
                 response == h[1]
             IN  IF response.raises THEN Raise("ConnectionError", req)
                 ELSE IF response.json.t = "invalid"
                 THEN Raise("JSONDecodeError", req \o <<Json>>)
                 ELSE IF response.json.t # "dict"
                 THEN Raise("TypeError", req \o <<Json>>)
                 ELSE neo_record(d, end_date, count, response.json.v, req \o <<Json>>)

\* mcp_chat.get_model_response_with_nasa_data: the template of the category,
\* the empty text for a data_type that is none of apod, mars and neo
get_model_response_with_nasa_data(user_query, nasa_data, data_type) ==
    IF data_type = APOD THEN format_apod(nasa_data)
    ELSE IF data_type = MARS THEN format_mars(nasa_data)
    ELSE IF data_type = NEO THEN format_neo(nasa_data)
    ELSE Formatted(<<>>, {})

\* the arguments of the fetcher calls compared
SiteDates == {None, <<"2","0","2","2","-","1","2","-","2","5">>, <<"2","0","2","1","-","0","2","-","3","0">>}

SiteCalls ==
    {[fn |-> "get_astronomy_picture", date |-> d] : d \in SiteDates}
    \cup {[fn |-> "get_mars_photos", rover |-> r, date |-> d] :
              r \in {<<"c","u","r","i","o","s","i","t","y">>, <<"s","p","i","r","i","t">>}, d \in SiteDates}
    \cup {[fn |-> "get_neo_objects", date |-> d, count |-> n] :
              d \in SiteDates, n \in {2, DefaultCount}}

SiteResponsesFor(fn) ==
    IF fn = "get_astronomy_picture" THEN {<<r>> : r \in ApodResponses}
    ELSE IF fn = "get_mars_photos" THEN {<<r>> : r \in MarsResponses}
    ELSE {<<r>> : r \in NeoResponses}

\* the records the chat-module fetchers return
ChatFetchedRecords ==
    LET outcomes ==
            {mcp_chat_get_astronomy_picture(None, <<r>>) : r \in ApodResponses}
            \cup {mcp_chat_get_mars_photos(<<"s","p","i","r","i","t">>, None, <<r>>) : r \in MarsResponses}
            \cup {mcp_chat_get_neo_objects(None, DefaultCount, <<r>>) : r \in NeoResponses}
    IN  {o.value : o \in {x \in outcomes : x.kind = "return"}}

InitSites ==
    /\ pc = "sites"
    /\ \/ /\ call \in SiteCalls
          /\ http \in SiteResponsesFor(call.fn)
       \/ /\ call \in {[fn |-> "format", user_query |-> <<"s","h","o","w"," ","m","e">>,
                         nasa_data |-> d, data_type |-> t] :
                           d \in FetchedRecords \cup ChatFetchedRecords,
                           t \in {APOD, MARS, NEO, EPIC}}
          /\ http = <<>>
    /\ ret = Pending
    /\ messages = <<>>
    /\ printed = <<>>
    /\ llm = <<>>
    /\ exit_status = "running"

\* the fetcher of the tool module and the fetcher of the chat module of the
\* same name, on the same arguments and the same response
FetchAtBothSites ==
    /\ pc = "sites"
    /\ call.fn # "format"
    /\ ret' = IF call.fn = "get_astronomy_picture"
              THEN [kind |-> "compared",
                    tool |-> get_astronomy_picture(call.date, http),
                    chat |-> mcp_chat_get_astronomy_picture(call.date, http)]
              ELSE IF call.fn = "get_mars_photos"
              THEN [kind |-> "compared",
                    tool |-> get_mars_photos(call.rover, call.date, http),
                    chat |-> mcp_chat_get_mars_photos(call.rover, call.date, http)]
              ELSE [kind |-> "compared",
                    tool |-> get_neo_objects(call.date, call.count, http),
                    chat |-> mcp_chat_get_neo_objects(call.date, call.count, http)]
    /\ pc' = "compared"
    /\ UNCHANGED <<call, http, messages, printed, llm, exit_status>>

\* format_nasa_response and get_model_response_with_nasa_data on the same
\* record and data_type
FormatAtBothSites ==
    /\ pc = "sites"
    /\ call.fn = "format"
    /\ ret' = [kind |-> "compared",
               tool |-> format_nasa_response(call.user_query, call.nasa_data,
                                             call.data_type),
               chat |-> get_model_response_with_nasa_data(call.user_query,
                                             call.nasa_data, call.data_type)]
    /\ pc' = "compared"
    /\ UNCHANGED <<call, http, messages, printed, llm, exit_status>>

NextSites == FetchAtBothSites \/ FormatAtBothSites

SpecSites == InitSites /\ [][NextSites]_vars

(***************************************************************************)
(* Spec: the session loop mcp_chat and its caller                          *)
(***************************************************************************)

MODEL_NAME == <<"l","l","a","m","a","3",".","2",":","l","a","t","e","s","t">>

system_message ==
    [role |-> <<"s","y","s","t","e","m">>,
     content |-> <<"Y","o","u"," ","a","r","e"," ","a"," ","h","e","l","p","f","u","l"," ","A","I"," ","a","s","s","i","s","t","a","n","t"," ","w","i","t","h"," ","k","n","o","w","l","e","d","g","e"," ","a","b","o","u","t"," ","s","p","a","c","e"," ","a","n","d"," ","N","A","S","A",".">>]

user_message(user_input) == [role |-> <<"u","s","e","r">>, content |-> user_input]
assistant_message(content) == [role |-> <<"a","s","s","i","s","t","a","n","t">>, content |-> content]

\* the lines mcp_chat prints before it reads the first input
banner ==
    << <<"\n","=","=","=","=","=","=","=","=","=","=","=","=","=","=","=","=","=","=","=","=","=","=","=","=","=","=","=","=","=","=","=","=","=","=","=","=","=","=","=","=","=","=","=","=","=","=","=","=","=","=">>,
       <<"N","A","S","A","-","e","n","h","a","n","c","e","d"," ","C","h","a","t"," ","u","s","i","n","g"," ">> \o MODEL_NAME,
       <<"=","=","=","=","=","=","=","=","=","=","=","=","=","=","=","=","=","=","=","=","=","=","=","=","=","=","=","=","=","=","=","=","=","=","=","=","=","=","=","=","=","=","=","=","=","=","=","=","=","=">>,
       <<"T","h","i","s"," ","i","m","p","l","e","m","e","n","t","a","t","i","o","n"," ","d","e","m","o","n","s","t","r","a","t","e","s"," ","t","h","e"," ","M","o","d","e","l"," ","C","o","n","t","e","x","t"," ","P","r","o","t","o","c","o","l"," ","(","M","C","P",")">>,
       <<"b","y"," ","i","n","t","e","g","r","a","t","i","n","g"," ","N","A","S","A"," ","A","P","I"," ","d","a","t","a"," ","w","i","t","h"," ","a"," ","l","o","c","a","l"," ","L","L","M",".">>,
       <<"\n","A","s","k"," ","a","b","o","u","t",":">>,
       <<"-"," ","A","s","t","r","o","n","o","m","y"," ","P","i","c","t","u","r","e"," ","o","f"," ","t","h","e"," ","D","a","y"," ","(","t","r","y",":"," ","'","s","h","o","w"," ","m","e"," ","t","o","d","a","y","'","s"," ","a","s","t","r","o","n","o","m","y"," ","p","i","c","t","u","r","e","'",")">>,
       <<"-"," ","M","a","r","s"," ","R","o","v","e","r"," ","p","h","o","t","o","s"," ","(","t","r","y",":"," ","'","w","h","a","t"," ","p","h","o","t","o","s"," ","d","i","d"," ","t","h","e"," ","M","a","r","s"," ","r","o","v","e","r"," ","t","a","k","e"," ","r","e","c","e","n","t","l","y","?","'",")">>,
       <<"-"," ","N","e","a","r","-","E","a","r","t","h"," ","O","b","j","e","c","t","s"," ","(","t","r","y",":"," ","'","a","r","e"," ","t","h","e","r","e"," ","a","n","y"," ","a","s","t","e","r","o","i","d","s"," ","p","a","s","s","i","n","g"," ","n","e","a","r"," ","E","a","r","t","h","?","'",")">>,
       <<"-"," ","E","a","r","t","h"," ","i","m","a","g","e","r","y"," ","(","t","r","y",":"," ","'","s","h","o","w"," ","m","e"," ","i","m","a","g","e","s"," ","o","f"," ","E","a","r","t","h"," ","f","r","o","m"," ","s","p","a","c","e","'",")">>,
       <<"\n","T","y","p","e"," ","'","e","x","i","t","'"," ","t","o"," ","q","u","i","t">> >>

\* the input lines of a session
ChatInputs ==
    { <<"e","x","i","t">>, <<"Q","U","I","T">>, <<"E","x","i","t">>, <<"q","u","i","t"," ","n","o","w">>, <<"T","e","l","l"," ","m","e"," ","a","b","o","u","t"," ","b","l","a","c","k"," ","h","o","l","e","s">>,
      <<"A","P","O","D">>, <<"M","a","r","s"," ","r","o","v","e","r"," ","2","0","2","2","-","1","2","-","2","5">>, <<"a","s","t","e","r","o","i","d"," ","2","0","2","1","-","0","2","-","3","0">>,
      <<"a","n","y"," ","n","e","a","r"," ","e","a","r","t","h"," ","o","b","j","e","c","t","s","?">>, <<"E","a","r","t","h">> }

\* mutant: the line compared without lower()
is_exit_exact(user_input) == user_input \in {<<"e","x","i","t">>, <<"q","u","i","t">>}

\* user_input.lower() in ["exit", "quit"]
is_exit(user_input) == lower(user_input) \in {<<"e","x","i","t">>, <<"q","u","i","t">>}

\* the responses of the provider during a session
ChatResponsesFor(data_type) ==
    IF data_type = APOD
    THEN {<<r>> : r \in {NoResponse, Response(500, <<"I","n","t","e","r","n","a","l"," ","S","e","r","v","e","r"," ","E","r","r","o","r">>, InvalidJson),
                         Ok(ApodBody(<<"A"," ","n","e","b","u","l","a",".">>)), Ok(ApodBodyBare)}}
    ELSE IF data_type = MARS
    THEN {<<r>> : r \in {Response(200, <<"<","h","t","m","l",">">>, InvalidJson),
                         Response(403, <<"F","o","r","b","i","d","d","e","n">>, ErrorPayload),
                         Ok(PhotosBody(0)), Ok(PhotosBody(2))}}
    ELSE IF data_type = NEO
    THEN {<<r>> : r \in {NoResponse, Ok(FeedBody(Descending(2)))}}
    ELSE IF data_type = EPIC
    THEN { <<NoResponse>>,
           <<Ok(List(<< <<"2","0","2","4","-","0","2","-","2","6">> >>)), Ok(ImagesBody(1))>>,
           <<Ok(List(<< <<"2","0","2","4","-","0","2","-","2","6">> >>)), Ok(ImagesBody(0))>> }
    ELSE {<<>>}

\* ollama.chat returns a response, with or without content, or raises
LlmOutcomes ==
    { [raises |-> FALSE,
       message |-> assistant_message(<<"B","l","a","c","k"," ","h","o","l","e","s"," ","a","r","e"," ","r","e","g","i","o","n","s"," ","o","f"," ","s","p","a","c","e","t","i","m","e",".">>)],
      [raises |-> FALSE, message |-> assistant_message(<<>>)],
      [raises |-> TRUE, message |-> assistant_message(<<>>)] }

\* mutant: the history restarted at every turn that goes to the model
fresh_history(history, user_input) == <<system_message, user_message(user_input)>>

\* messages.append({"role": "user", "content": user_input})
append_user(history, user_input) == history \o <<user_message(user_input)>>

\* mutant: the model is sent the line of the turn only, not the history
ollama_chat_last_message(model, history, response) ==
    [model |-> model, messages |-> <<history[Len(history)]>>,
     raises |-> response.raises, message |-> response.message]

\* ollama.chat(model=MODEL_NAME, messages=messages): the call and its outcome
ollama_chat(model, history, response) ==
    [model |-> model, messages |-> history,
     raises |-> response.raises, message |-> response.message]

\* the turns of a session
MaxTurns == 2

Turns == Cardinality({i \in 1..Len(messages) : messages[i].role = <<"u","s","e","r">>})

Init ==
    /\ pc = "start"
    /\ call = [fn |-> "mcp_chat"]
    /\ http = <<>>
    /\ ret = Pending
    /\ messages = <<>>
    /\ printed = <<>>
    /\ llm = <<>>
    /\ exit_status = "running"

\* mutant: the error of ollama.list() printed without sys.exit(1), so that
\* the session goes on to the banner and the loop
StartupFails_no_exit ==
    /\ pc = "start"
    /\ printed' = << <<"E","r","r","o","r",":"," ","U","n","a","b","l","e"," ","t","o"," ","c","o","n","n","e","c","t"," ","t","o"," ","O","l","l","a","m","a","."," ","C","o","n","n","e","c","t","i","o","n","E","r","r","o","r">>,
                     <<"P","l","e","a","s","e"," ","i","n","s","t","a","l","l"," ","O","l","l","a","m","a"," ","a","n","d"," ","t","h","e"," ">> \o MODEL_NAME \o <<" ","m","o","d","e","l",".">> >>
                   \o banner
    /\ messages' = <<system_message>>
    /\ pc' = "input"
    /\ UNCHANGED <<call, http, ret, llm, exit_status>>

\* ollama.list() raises: the process exits with status 1
StartupFails ==
    /\ pc = "start"
    /\ printed' = << <<"E","r","r","o","r",":"," ","U","n","a","b","l","e"," ","t","o"," ","c","o","n","n","e","c","t"," ","t","o"," ","O","l","l","a","m","a","."," ","C","o","n","n","e","c","t","i","o","n","E","r","r","o","r">>,
                     <<"P","l","e","a","s","e"," ","i","n","s","t","a","l","l"," ","O","l","l","a","m","a"," ","a","n","d"," ","t","h","e"," ">> \o MODEL_NAME \o <<" ","m","o","d","e","l",".">> >>
    /\ pc' = "exited"
    /\ exit_status' = "1"
    /\ UNCHANGED <<call, http, ret, messages, llm>>

\* ollama.list() returns: the banner, the history with the system message
Startup ==
    /\ pc = "start"
    /\ printed' = banner
    /\ messages' = <<system_message>>
    /\ pc' = "input"
    /\ UNCHANGED <<call, http, ret, llm, exit_status>>

\* the line read is exit or quit
ExitCommand ==
    /\ pc = "input"
    /\ \E user_input \in ChatInputs :
        /\ is_exit(user_input)
        /\ call' = [fn |-> "input", query |-> user_input]
    /\ printed' = << <<"G","o","o","d","b","y","e","!">> >>
    /\ http' = <<>>
    /\ ret' = Pending
    /\ llm' = <<>>
    /\ pc' = "exited"
    /\ exit_status' = "0"
    /\ UNCHANGED messages

\* a turn for which process_query returns NASA data
RoutedTurn ==
    /\ pc = "input"
    /\ Turns < MaxTurns
    /\ \E user_input \in ChatInputs :
        /\ ~is_exit(user_input)
        /\ \E h \in ChatResponsesFor(Route(user_input).data_type) :
            \E nasa_response \in {process_query(user_input, h)} :
                /\ nasa_response.kind = "return"
                /\ call' = [fn |-> "input", query |-> user_input]
                /\ http' = h
                /\ ret' = nasa_response
                /\ messages' = messages \o
                       << user_message(user_input),
                          assistant_message(nasa_response.value.response) >>
                /\ printed' =
                       << <<"\n","F","e","t","c","h","i","n","g"," ","d","a","t","a"," ","f","r","o","m"," ">> \o nasa_response.value.source \o <<".",".",".">>,
                          <<"\n","A","s","s","i","s","t","a","n","t",":"," ">> \o nasa_response.value.response >>
    /\ llm' = <<>>
    /\ UNCHANGED <<pc, exit_status>>

\* a turn in which process_query raises: the exception leaves mcp_chat, the
\* caller prints it and exits with status 1
TurnRaises ==
    /\ pc = "input"
    /\ Turns < MaxTurns
    /\ \E user_input \in ChatInputs :
        /\ ~is_exit(user_input)
        /\ \E h \in ChatResponsesFor(Route(user_input).data_type) :
            \E nasa_response \in {process_query(user_input, h)} :
                /\ nasa_response.kind = "raise"
                /\ call' = [fn |-> "input", query |-> user_input]
                /\ http' = h
                /\ ret' = nasa_response
                /\ printed' = << <<"\n","A","n"," ","u","n","e","x","p","e","c","t","e","d"," ","e","r","r","o","r"," ","o","c","c","u","r","r","e","d",":"," ">>
                                 \o <<nasa_response.exc>> >>
    /\ llm' = <<>>
    /\ pc' = "exited"
    /\ exit_status' = "1"
    /\ UNCHANGED messages

\* a turn for which process_query returns None: the history goes to the model
ModelTurn ==
    /\ pc = "input"
    /\ Turns < MaxTurns
    /\ \E user_input \in ChatInputs :
        /\ ~is_exit(user_input)
        /\ Route(user_input).data_type = None
        /\ \E nasa_response \in {process_query(user_input, <<>>)},
              history \in {append_user(messages, user_input)} :
               /\ nasa_response.kind = "none"
               /\ call' = [fn |-> "input", query |-> user_input]
               /\ ret' = nasa_response
               /\ \E response \in LlmOutcomes :
                    /\ llm' = <<ollama_chat(MODEL_NAME, history, response)>>
                    /\ IF response.raises
                       THEN /\ messages' = history
                            /\ printed' = << <<"T","h","i","n","k","i","n","g",".",".",".">>,
                                             <<"\n","E","r","r","o","r"," ","g","e","t","t","i","n","g"," ","r","e","s","p","o","n","s","e"," ","f","r","o","m"," ","m","o","d","e","l",":"," ","R","e","s","p","o","n","s","e","E","r","r","o","r">> >>
                       ELSE IF response.message.content # <<>>
                       THEN /\ messages' = history \o <<response.message>>
                            /\ printed' = << <<"T","h","i","n","k","i","n","g",".",".",".">>,
                                             <<"\n","A","s","s","i","s","t","a","n","t",":"," ">> \o response.message.content >>
                       ELSE /\ messages' = history
                            /\ printed' = << <<"T","h","i","n","k","i","n","g",".",".",".">>,
                                             <<"\n","N","o"," ","r","e","s","p","o","n","s","e"," ","r","e","c","e","i","v","e","d"," ","f","r","o","m"," ","t","h","e"," ","m","o","d","e","l",".">> >>
    /\ http' = <<>>
    /\ UNCHANGED <<pc, exit_status>>

\* KeyboardInterrupt while the loop waits for input
Interrupt ==
    /\ pc = "input"
    /\ printed' = << <<"\n","C","h","a","t"," ","s","e","s","s","i","o","n"," ","t","e","r","m","i","n","a","t","e","d"," ","b","y"," ","u","s","e","r","."," ","G","o","o","d","b","y","e","!">> >>
    /\ pc' = "exited"
    /\ exit_status' = "0"
    /\ UNCHANGED <<call, http, ret, messages, llm>>

Next ==
    \/ StartupFails
    \/ Startup
    \/ ExitCommand
    \/ RoutedTurn
    \/ TurnRaises
    \/ ModelTurn
    \/ Interrupt

Spec == Init /\ [][Next]_vars

(***************************************************************************)
(* Properties                                                              *)
(***************************************************************************)

\* sub occurs in text: some position of text starts a copy of sub
Occurs(sub, text) ==
    \E i \in 1..Len(text) :
        /\ i + Len(sub) - 1 <= Len(text)
        /\ \A k \in 1..Len(sub) : text[i + k - 1] = sub[k]

KeywordOccurs(keywords, text) == \E k \in 1..Len(keywords) : Occurs(keywords[k], text)

\* the categories in the order of their tests, each with its keyword set
Priority ==
    << [category |-> APOD, keywords |-> apod_keywords],
       [category |-> MARS, keywords |-> mars_keywords],
       [category |-> NEO,  keywords |-> neo_keywords],
       [category |-> EPIC, keywords |-> epic_keywords] >>

\* the ranks of the categories that have a keyword in the lower-cased text
Hits(text) == {n \in 1..Len(Priority) : KeywordOccurs(Priority[n].keywords, lower(text))}

\* C1: the router selects the first category, in the order picture-of-day,
\* rover-photos, near-earth-objects, earth-imagery, that has a keyword
\* occurring in the lower-cased text, and process_query returns None exactly
\* when no keyword of any category occurs in it.
C1_FirstMatchingCategory ==
    pc = "returned" =>
        LET hits == Hits(call.query)
        IN  IF hits = {}
            THEN ret.route.data_type = None /\ ret.kind = "none"
            ELSE /\ ret.kind # "none"
                 /\ \E n \in hits : /\ ret.route.data_type = Priority[n].category
                                    /\ \A m \in hits : n <= m

\* a query with keywords of two categories went to the earlier one
C1_Witness ==
    /\ pc = "returned"
    /\ Hits(call.query) = {2, 3}
    /\ ret.route.data_type = MARS

\* the response to the first request of the operation had a status other than 200
FirstStatusNot200 ==
    /\ pc = "returned"
    /\ ret.fetched.io # <<>>
    /\ ~http[1].raises
    /\ http[1].status_code # 200

\* C4: when the status of the response is not a success status, the
\* picture-of-day, rover-photos and near-earth-objects fetchers of the router
\* return an error record with the status code and the raw body, and do not
\* parse the body.
C4_ErrorRecordOnBadStatus ==
    (FirstStatusNot200 /\ ret.route.data_type \in {APOD, MARS, NEO}) =>
        /\ ret.fetched.kind = "return"
        /\ ret.fetched.value =
               [error   |-> <<"A","P","I"," ","e","r","r","o","r",":"," ">> \o str_of(http[1].status_code),
                message |-> http[1].text]
        /\ \A i \in 1..Len(ret.fetched.io) : ret.fetched.io[i].op # "json"

C4_Witness ==
    /\ FirstStatusNot200
    /\ ret.route.data_type = NEO
    /\ http[1].status_code = 403
    /\ ret.fetched.value.error = <<"A","P","I"," ","e","r","r","o","r",":"," ","4","0","3">>

\* some request of the earth-imagery fetcher failed: no response, a status
\* other than 200, or a body that is not JSON
EpicFailure ==
    \E i \in 1..Len(http) :
        \/ http[i].raises
        \/ http[i].status_code # 200
        \/ http[i].json.t = "invalid"

\* C5: the earth-imagery fetcher of a routed query never raises and never
\* returns an error record; on a failure it returns the "no coverage" message.
C5_EpicNeverPropagates ==
    (pc = "returned" /\ ret.route.data_type = EPIC) =>
        /\ ret.fetched.kind = "return"
        /\ "error" \notin DOMAIN ret.fetched.value
        /\ EpicFailure => "message" \in DOMAIN ret.fetched.value

\* the provider answered a rover-photos request with an empty photo list
NoPhotos ==
    /\ pc = "returned"
    /\ ret.route.data_type = MARS
    /\ http[1] = Ok(PhotosBody(0))

\* C6: with zero photos the fetcher returns a message record and the text of
\* the turn is "NASA Mars Rover Data: No photos available for {rover} on {date}".
C6_NoPhotosText ==
    NoPhotos =>
        LET date == IF ret.route.date = None THEN Today ELSE ret.route.date
            message == <<"N","o"," ","p","h","o","t","o","s"," ","a","v","a","i","l","a","b","l","e"," ","f","o","r"," ">> \o ret.route.rover \o <<" ","o","n"," ">> \o date
        IN  /\ ret.fetched.kind = "return"
            /\ ret.fetched.value = [message |-> message]
            /\ ret.kind = "return"
            /\ ret.value.response = <<"N","A","S","A"," ","M","a","r","s"," ","R","o","v","e","r"," ","D","a","t","a",":"," ">> \o message

\* w has the shape YYYY-MM-DD
IsoShape(w) ==
    /\ Len(w) = 10
    /\ \A i \in 1..10 : IF i \in {5, 8} THEN w[i] = "-"
                        ELSE w[i] \in {DIGITS[d] : d \in 1..Len(DIGITS)}

\* the positions of text where a substring of the shape YYYY-MM-DD starts
DatePositions(text) ==
    {i \in 1..(Len(text) - 9) : IsoShape(SubSeq(text, i, i + 9))}

\* every dated request the fetcher made was for the date d
RequestsFor(d) ==
    \A i \in 1..Len(ret.fetched.io) :
        (ret.fetched.io[i].op = "get" /\ ret.fetched.io[i].date # None)
            => ret.fetched.io[i].date = d

Routed == pc = "returned" /\ ret.route.data_type # None

C10_WitnessEpic ==
    /\ Routed
    /\ ret.route.data_type = EPIC
    /\ DatePositions(call.query) = {}
    /\ Len(ret.fetched.io) >= 3
    /\ ret.fetched.io[3].date = <<"2","0","2","4","-","0","2","-","2","6">>

\* C7: a record with an "error" field is formatted as the one-line error
\* message, a record with a "message" field and no "error" field as the
\* one-line message, whatever the category; no template is rendered and no
\* other field is read.
C7_ShortCircuit ==
    (pc = "returned" /\ call.fn = "format_nasa_response") =>
        LET d == call.nasa_data
        IN  /\ "error" \in DOMAIN d =>
                 /\ ret = Formatted(<<"S","o","r","r","y",","," ","I"," ","e","n","c","o","u","n","t","e","r","e","d"," ","a","n"," ","e","r","r","o","r"," ","w","h","e","n"," ","t","r","y","i","n","g"," ","t","o"," ","f","e","t","c","h"," ","N","A","S","A"," ","d","a","t","a",":"," ">>
                                    \o d.error, {"error"})
                 /\ \A i \in 1..Len(ret.value) : ret.value[i] # "\n"
            /\ ("message" \in DOMAIN d /\ "error" \notin DOMAIN d) =>
                 /\ ret = Formatted(<<"N","A","S","A"," ","A","P","I"," ","m","e","s","s","a","g","e",":"," ">> \o d.message, {"message"})
                 /\ \A i \in 1..Len(ret.value) : ret.value[i] # "\n"

\* an error record that also has the fields of the picture-of-day template
C7_Witness ==
    /\ pc = "returned"
    /\ call.fn = "format_nasa_response"
    /\ call.data_type = APOD
    /\ {"error", "title", "explanation"} \subseteq DOMAIN call.nasa_data
    /\ ret.reads = {"error"}

\* the items a text renders: the lines that start with "- "
RenderedItems(text) ==
    Cardinality({i \in 2..(Len(text) - 1) :
                    text[i - 1] = "\n" /\ text[i] = "-" /\ text[i + 1] = " "})

\* the category of a data record, by its list field
CategoryOf(record) ==
    IF "photos" \in DOMAIN record THEN MARS
    ELSE IF "near_earth_objects" \in DOMAIN record THEN NEO
    ELSE IF "images" \in DOMAIN record THEN EPIC
    ELSE APOD

\* C8: however a fetcher is called, a rover-photos record holds at most 5
\* photos, a near-earth-objects record at most 5 objects, an earth-imagery
\* record at most 3 images, and the formatter renders at most 3 items.
C8_ListCaps ==
    (pc = "returned" /\ call.fn \in {"get_neo_objects", "NasaApiTool.call"}
        /\ ret.kind = "return") =>
        LET d == ret.value
            text == format_nasa_response(<<>>, d, CategoryOf(d))
        IN  /\ "photos" \in DOMAIN d => Len(d.photos) <= 5
            /\ "near_earth_objects" \in DOMAIN d => Len(d.near_earth_objects) <= 5
            /\ "images" \in DOMAIN d => Len(d.images) <= 3
            /\ text.kind = "return" => RenderedItems(text.value) <= 3

\* the value of the miss distances of the feeds
KmValue(s) ==
    CASE s = <<"9",".","5">> -> 950
      [] s = <<"1","0">>  -> 1000
      [] s = <<"1","0","0">> -> 10000

\* the objects of the feed the provider returned, of every day
FeedObjects ==
    LET days == http[1].json.v.near_earth_objects
    IN  UNION {{days[d].objects[i] : i \in 1..Len(days[d].objects)} : d \in 1..Len(days)}

Km(o) == KmValue(o.close_approach_data[1].miss_distance.kilometers)

\* the count asked of the near-earth-objects fetcher
RequestedCount ==
    IF call.fn = "get_neo_objects" THEN call.count ELSE get(call.params, "count", 5)

\* the near-earth-objects fetcher returned a data record
NeoFetched ==
    /\ pc = "returned"
    /\ call.fn \in {"get_neo_objects", "NasaApiTool.call"}
    /\ ret.kind = "return"
    /\ "near_earth_objects" \in DOMAIN ret.value

RoutedInput ==
    /\ call.fn = "input"
    /\ ret.kind \in {"return", "raise"}
    /\ ret.route.data_type # None

\* the fetcher of the turn returned (data, a message record or an error record)
FetcherReturned == RoutedInput /\ ret.fetched.kind = "return"

\* C2: in a routed turn whose fetcher returned, whatever it returned, the
\* language model is not called and the history ends with the user entry of
\* the turn followed by an assistant entry holding the formatted NASA text.
C2_RoutedTurnRecorded ==
    FetcherReturned =>
        /\ llm = <<>>
        /\ ret.kind = "return"
        /\ Len(messages) >= 3
        /\ messages[Len(messages) - 1] = user_message(call.query)
        /\ messages[Len(messages)] = assistant_message(ret.value.response)

\* the fetch of the turn failed: the fetcher raised (transport failure,
\* unparseable or unexpected body, a date token strptime rejects) or
\* returned an error record (status other than 200)
FetchFailed ==
    /\ RoutedInput
    /\ \/ ret.fetched.kind = "raise"
       \/ "error" \in DOMAIN ret.fetched.value

ErrorLines == {i \in 1..Len(printed) : Contains(lower(printed[i]), <<"e","r","r","o","r">>)}

\* C3: a failed fetch in a routed turn is reported in at most one line and
\* does not end the session with a failure status: the loop reads again.
C3_FetchFailureContinues ==
    FetchFailed =>
        /\ Cardinality(ErrorLines) <= 1
        /\ exit_status # "1"

(***************************************************************************)
(* The router on single-category inputs and on the batch-test table        *)
(***************************************************************************)

\* a keyword of the category of rank n occurs in the lower-cased query
Hit(n) == n \in Hits(call.query)

\* C11 as stated: a query with a rover-photos keyword and no
\* near-earth-objects keyword is routed to rover-photos.
C11_MarsWithoutNeo ==
    (pc = "returned" /\ Hit(2) /\ ~Hit(3)) => ret.route.data_type = MARS

\* C11, amended: a query with a rover-photos keyword and no picture-of-day
\* keyword is routed to rover-photos, with or without keywords of the
\* categories tested later; one with a picture-of-day keyword is not.
C11_MarsWithoutApod ==
    (pc = "returned" /\ Hit(2)) =>
        IF Hit(1) THEN ret.route.data_type = APOD ELSE ret.route.data_type = MARS

\* a query with a rover-photos keyword, an earth-imagery keyword and no
\* near-earth-objects keyword went to rover-photos
C11_Witness ==
    /\ pc = "returned"
    /\ Hits(call.query) = {2, 4}
    /\ ret.route.data_type = MARS
    /\ ret.fetched.io # <<>>
    /\ ret.fetched.io[1].api = "mars-photos"

\* the case of the batch-test table the query of the call is, 0 for a
\* query that is not of the table
CaseOf(query) ==
    IF \E i \in 1..Len(TEST_CASES) : TEST_CASES[i].query = query
    THEN CHOOSE i \in 1..Len(TEST_CASES) : TEST_CASES[i].query = query
    ELSE 0

\* the categories an expected_api of the table names
Expected(expected_api) ==
    IF expected_api = <<"A","P","O","D">> THEN {APOD}
    ELSE IF expected_api = <<"M","a","r","s">> THEN {MARS}
    ELSE IF expected_api = <<"N","E","O">> THEN {NEO}
    ELSE IF expected_api = <<"E","P","I","C">> THEN {EPIC}
    ELSE IF expected_api = <<"A","P","O","D"," ","o","r"," ","M","a","r","s">> THEN {APOD, MARS}
    ELSE {None}

\* C12: the query "Show me NASA's picture from 2022-12-25" is routed to
\* picture-of-day with the extracted date "2022-12-25".
C12_PictureFromDate ==
    (pc = "returned" /\ call.query = TEST_CASES[2].query) =>
        /\ ret.route.data_type = APOD
        /\ ret.route.date = <<"2","0","2","2","-","1","2","-","2","5">>

\* C13: every query of the batch-test table is routed to a category its
\* expected_api names, the off-topic query to none.
C13_TableRouted ==
    (pc = "returned" /\ CaseOf(call.query) # 0) =>
        /\ ret.route.data_type \in Expected(TEST_CASES[CaseOf(call.query)].expected_api)
        /\ (ret.kind = "none") = (TEST_CASES[CaseOf(call.query)].expected_api = None)

\* the rover names of the router
ROVERS == { <<"c","u","r","i","o","s","i","t","y">>, <<"p","e","r","s","e","v","e","r","a","n","c","e">>, <<"o","p","p","o","r","t","u","n","i","t","y">>, <<"s","p","i","r","i","t">> }

\* the rover of the request the rover-photos fetcher made
RequestedRover == ret.fetched.io[1].rover

\* C14: the rover passed to the rover-photos fetcher is one of the four rover
\* names: a name that occurs in the lower-cased query, or "curiosity" when
\* none occurs in it; the query of case 3 of the table gives curiosity and
\* an unset date.
C14_RoverOfQuery ==
    (pc = "returned" /\ ret.route.data_type = MARS) =>
        LET named == {r \in ROVERS : Occurs(r, lower(call.query))}
        IN  /\ ret.route.rover \in ROVERS
            /\ RequestedRover = ret.route.rover
            /\ IF named = {} THEN ret.route.rover = <<"c","u","r","i","o","s","i","t","y">>
                             ELSE ret.route.rover \in named
            /\ call.query = TEST_CASES[3].query =>
                   ret.route.rover = <<"c","u","r","i","o","s","i","t","y">> /\ ret.route.date = None

\* a query that names a rover other than the default
C14_Witness ==
    /\ pc = "returned"
    /\ ret.route.data_type = MARS
    /\ call.query = <<"M","a","r","s"," ","S","p","i","r","i","t"," ">>
    /\ ret.route.rover = <<"s","p","i","r","i","t">>

\* the query of case 3 of the table, which names the default rover
C14_WitnessDefault ==
    /\ pc = "returned"
    /\ call.query = TEST_CASES[3].query
    /\ RequestedRover = <<"c","u","r","i","o","s","i","t","y">>

(***************************************************************************)
(* The end of a session                                                    *)
(***************************************************************************)

\* the step reads a line that is exit or quit in some letter case
ReadsExit ==
    /\ pc = "input"
    /\ call'.fn = "input"
    /\ lower(call'.query) \in {<<"e","x","i","t">>, <<"q","u","i","t">>}

\* the step is the interrupt of the loop while it waits for a line: the
\* session ends and no line is read or processed
Interrupted == pc = "input" /\ pc' = "exited" /\ UNCHANGED <<call, http, ret>>

\* C15: a line equal to exit or quit in any letter case ends the session
\* with the farewell line, without routing, fetch, language-model call or
\* change of the history; an interrupt ends it with exit status 0.
C15_ExitEndsSession ==
    [][ /\ ReadsExit =>
            /\ pc' = "exited"
            /\ exit_status' = "0"
            /\ printed' = << <<"G","o","o","d","b","y","e","!">> >>
            /\ messages' = messages
            /\ http' = <<>>
            /\ ret' = Pending
            /\ llm' = <<>>
        /\ Interrupted =>
            /\ exit_status' = "0"
            /\ printed' = << <<"\n","C","h","a","t"," ","s","e","s","s","i","o","n"," ","t","e","r","m","i","n","a","t","e","d"," ","b","y"," ","u","s","e","r","."," ","G","o","o","d","b","y","e","!">> >>
            /\ messages' = messages
      ]_vars

\* a session of two turns ended by QUIT
C15_Witness ==
    /\ pc = "exited"
    /\ call.fn = "input"
    /\ call.query = <<"Q","U","I","T">>
    /\ printed = << <<"G","o","o","d","b","y","e","!">> >>
    /\ Turns = 2
    /\ exit_status = "0"

(***************************************************************************)
(* Turns that go to the language model, and the history                    *)
(***************************************************************************)

\* the step is a turn routed to none
NoneTurn ==
    /\ pc = "input"
    /\ call'.fn = "input"
    /\ ret'.kind = "none"
    /\ (llm' # llm \/ messages' # messages)

\* C16: in a turn routed to none the model is called once, with the history
\* so far in order and the user message of the turn last; a reply with
\* content is printed verbatim and appended; a failed call prints the local
\* error line and appends nothing; the loop then waits for the next line.
C16_ModelTurn ==
    [][ NoneTurn =>
          /\ Len(llm') = 1
          /\ llm'[1].model = MODEL_NAME
          /\ llm'[1].messages = messages \o <<user_message(call'.query)>>
          /\ llm'[1].messages[1] = system_message
          /\ http' = <<>>
          /\ pc' = "input"
          /\ exit_status' = "running"
          /\ Len(printed') = 2
          /\ IF llm'[1].raises
             THEN /\ messages' = llm'[1].messages
                  /\ printed'[2] = <<"\n","E","r","r","o","r"," ","g","e","t","t","i","n","g"," ","r","e","s","p","o","n","s","e"," ","f","r","o","m"," ","m","o","d","e","l",":"," ","R","e","s","p","o","n","s","e","E","r","r","o","r">>
             ELSE IF llm'[1].message.content # <<>>
             THEN /\ messages' = llm'[1].messages \o <<llm'[1].message>>
                  /\ printed'[2] = <<"\n","A","s","s","i","s","t","a","n","t",":"," ">> \o llm'[1].message.content
             ELSE /\ messages' = llm'[1].messages
                  /\ printed'[2] = <<"\n","N","o"," ","r","e","s","p","o","n","s","e"," ","r","e","c","e","i","v","e","d"," ","f","r","o","m"," ","t","h","e"," ","m","o","d","e","l",".">>
      ]_vars

\* a turn routed to none after a NASA turn: the model was sent the system
\* message, the entries of the NASA turn and the line of the turn
C16_Witness ==
    /\ pc = "input"
    /\ ret.kind = "none"
    /\ Len(llm) = 1
    /\ Len(llm[1].messages) = 4
    /\ llm[1].messages[2] = user_message(<<"A","P","O","D">>)
    /\ llm[1].messages[4] = user_message(<<"T","e","l","l"," ","m","e"," ","a","b","o","u","t"," ","b","l","a","c","k"," ","h","o","l","e","s">>)
    /\ ~llm[1].raises
    /\ Len(messages) = 5

\* a turn whose call of the model failed, and the loop waits again
C16_WitnessFailed ==
    /\ pc = "input"
    /\ ret.kind = "none"
    /\ Len(llm) = 1
    /\ llm[1].raises
    /\ messages = llm[1].messages

\* s is a prefix of t
IsPrefix(s, t) == Len(s) <= Len(t) /\ SubSeq(t, 1, Len(s)) = s

\* the step is a routed turn that returned NASA data
NasaTurn == pc = "input" /\ call'.fn = "input" /\ ret'.kind = "return" /\ messages' # messages

\* C17: in every step the history before is a prefix of the history after,
\* a history that has entries starts with the system message, and the
\* response of a NASA turn is that of process_query on the line read and the
\* responses of the provider, whatever the history holds.
C17_AppendOnly ==
    [][ /\ IsPrefix(messages, messages')
        /\ messages' # <<>> => messages'[1] = system_message
        /\ NasaTurn =>
              /\ ret' = process_query(call'.query, http')
              /\ llm' = <<>>
              /\ messages' = messages \o << user_message(call'.query),
                                             assistant_message(ret'.value.response) >>
      ]_vars

\* a history of five entries: a NASA turn, then a turn answered by the model
C17_Witness ==
    /\ Len(messages) = 5
    /\ messages[1] = system_message
    /\ messages[3].role = <<"a","s","s","i","s","t","a","n","t">>
    /\ messages[3].content # <<>>
    /\ messages[4] = user_message(<<"q","u","i","t"," ","n","o","w">>)
    /\ messages[5].role = <<"a","s","s","i","s","t","a","n","t">>

(***************************************************************************)
(* Startup                                                                 *)
(***************************************************************************)

\* the backend was not reached at startup: the lines of the except branch
\* of ollama.list() were printed
BackendUnreachable ==
    /\ printed # <<>>
    /\ printed[1] = <<"E","r","r","o","r",":"," ","U","n","a","b","l","e"," ","t","o"," ","c","o","n","n","e","c","t"," ","t","o"," ","O","l","l","a","m","a","."," ","C","o","n","n","e","c","t","i","o","n","E","r","r","o","r">>

\* C18: when the backend is not reached at startup the process has exited
\* with status 1, no line was read, no fetch was made, the model was not
\* called and there is no history; and a session that is past startup with
\* no history is such a session.
C18_StartupFailureExits ==
    /\ (BackendUnreachable \/ (pc # "start" /\ messages = <<>>)) =>
          /\ pc = "exited"
          /\ exit_status = "1"
          /\ call = [fn |-> "mcp_chat"]
          /\ http = <<>>
          /\ ret = Pending
          /\ llm = <<>>
          /\ messages = <<>>
          /\ Len(printed) = 2
    /\ pc = "input" => messages # <<>> /\ messages[1] = system_message

\* the session that ended at startup
C18_Witness ==
    /\ BackendUnreachable
    /\ pc = "exited"
    /\ exit_status = "1"
    /\ messages = <<>>

(***************************************************************************)
(* The description of the picture of the day                               *)
(***************************************************************************)

\* the picture-of-day fetcher returned a data record on a success response
ApodFetched ==
    /\ pc = "returned"
    /\ ret.route.data_type = APOD
    /\ ret.fetched.kind = "return"
    /\ "error" \notin DOMAIN ret.fetched.value

\* the description a text of at most 500 characters is rendered as, and a
\* longer one
Description(explanation) ==
    IF Len(explanation) <= 500
    THEN explanation
    ELSE SubSeq(explanation, 1, 500) \o <<".",".",".">>

\* C19: for every picture-of-day record of a success response, a response
\* without the explanation field included, the formatter returns a text
\* whose description is the explanation, unchanged up to 500 characters and
\* cut to 500 characters with the marker "..." beyond.
C19_DescriptionRendered ==
    ApodFetched =>
        /\ ret.kind = "return"
        /\ ret.fetched.value.explanation # None =>
              Occurs(<<"\n","\n","D","e","s","c","r","i","p","t","i","o","n",":"," ">>
                         \o Description(ret.fetched.value.explanation)
                         \o <<"\n","\n","C","r","e","d","i","t",":"," ">>,
                     ret.value.response)

(***************************************************************************)
(* The two call sites (SpecSites)                                          *)
(***************************************************************************)

\* C20: on the same arguments and the same provider response the function
\* of the chat module and the function of the tool module of the same role
\* do the same: both raise the same exception, or both return the same
\* record (the fetchers) or the same text (the formatters).
C20_SitesAgree ==
    pc = "compared" =>
        /\ ret.chat.kind = ret.tool.kind
        /\ ret.chat.exc = ret.tool.exc
        /\ ret.chat.value = ret.tool.value

(***************************************************************************)
(* The rover of a query that names several                                 *)
(***************************************************************************)

\* the rover name r occurs in the lower-cased query of the call
Named(r) == Occurs(r, lower(call.query))

\* the position of the first occurrence of the rover name r in the
\* lower-cased query of the call
FirstAt(r) ==
    CHOOSE i \in 1..Len(call.query) :
        /\ i + Len(r) - 1 <= Len(call.query)
        /\ SubSeq(lower(call.query), i, i + Len(r) - 1) = r
        /\ \A j \in 1..(i - 1) : SubSeq(lower(call.query), j, j + Len(r) - 1) # r

\* C21: the rover of a query routed to rover-photos is perseverance if
\* "perseverance" occurs in it, else opportunity if "opportunity" occurs,
\* else spirit if "spirit" occurs, else curiosity, wherever the names stand
\* in the text; it is the rover the fetcher asks for.
C21_RoverPrecedence ==
    (pc = "returned" /\ ret.route.data_type = MARS) =>
        /\ ret.route.rover =
               IF Named(<<"p","e","r","s","e","v","e","r","a","n","c","e">>) THEN <<"p","e","r","s","e","v","e","r","a","n","c","e">>
               ELSE IF Named(<<"o","p","p","o","r","t","u","n","i","t","y">>) THEN <<"o","p","p","o","r","t","u","n","i","t","y">>
               ELSE IF Named(<<"s","p","i","r","i","t">>) THEN <<"s","p","i","r","i","t">>
               ELSE <<"c","u","r","i","o","s","i","t","y">>
        /\ ret.fetched.io[1].rover = ret.route.rover
        /\ ret.route.rover = <<"c","u","r","i","o","s","i","t","y">> <=>
               ~(Named(<<"p","e","r","s","e","v","e","r","a","n","c","e">>) \/ Named(<<"o","p","p","o","r","t","u","n","i","t","y">>) \/ Named(<<"s","p","i","r","i","t">>))

\* a query that names curiosity first and opportunity after it went to
\* opportunity
C21_Witness ==
    /\ pc = "returned"
    /\ ret.route.data_type = MARS
    /\ Named(<<"c","u","r","i","o","s","i","t","y">>)
    /\ Named(<<"o","p","p","o","r","t","u","n","i","t","y">>)
    /\ FirstAt(<<"c","u","r","i","o","s","i","t","y">>) < FirstAt(<<"o","p","p","o","r","t","u","n","i","t","y">>)
    /\ ret.route.rover = <<"o","p","p","o","r","t","u","n","i","t","y">>

\* a query that names perseverance after spirit went to perseverance
C21_WitnessLast ==
    /\ pc = "returned"
    /\ ret.route.data_type = MARS
    /\ Named(<<"s","p","i","r","i","t">>)
    /\ Named(<<"p","e","r","s","e","v","e","r","a","n","c","e">>)
    /\ FirstAt(<<"s","p","i","r","i","t">>) < FirstAt(<<"p","e","r","s","e","v","e","r","a","n","c","e">>)
    /\ ret.route.rover = <<"p","e","r","s","e","v","e","r","a","n","c","e">>

(***************************************************************************)
(* The shape of the history                                                *)
(***************************************************************************)

\* the step reads a line that is not exit or quit and processes it: the
\* history or the call of the model changes, or the session ends with
\* status 1
TurnStep ==
    /\ pc = "input"
    /\ call'.fn = "input"
    /\ ret'.kind # "pending"
    /\ (messages' # messages \/ llm' # llm \/ exit_status' = "1")

\* the entries of a history with the role given
Entries(history, role) == {i \in 1..Len(history) : history[i].role = role}

\* the system message first, then user and assistant entries, each
\* assistant entry directly after a user entry
WellShaped(history) ==
    history # <<>> =>
        /\ history[1] = system_message
        /\ \A i \in 2..Len(history) :
              /\ history[i].role \in {<<"u","s","e","r">>, <<"a","s","s","i","s","t","a","n","t">>}
              /\ history[i].role = <<"a","s","s","i","s","t","a","n","t">> => history[i - 1].role = <<"u","s","e","r">>
        /\ Cardinality(Entries(history, <<"a","s","s","i","s","t","a","n","t">>))
              <= Cardinality(Entries(history, <<"u","s","e","r">>))

\* C22: every turn that is not exit or quit appends one user entry holding
\* the line read, followed by at most one assistant entry and by none when
\* the call of the model fails or returns no content; the history is the
\* system message followed by such entries, so that it never holds more
\* assistant entries than user entries.
C22_OneUserEntryPerTurn ==
    [][ /\ WellShaped(messages')
        /\ TurnStep =>
              /\ Len(messages') \in {Len(messages) + 1, Len(messages) + 2}
              /\ SubSeq(messages', 1, Len(messages) + 1)
                     = messages \o <<user_message(call'.query)>>
              /\ Len(messages') = Len(messages) + 2 =>
                     messages'[Len(messages')].role = <<"a","s","s","i","s","t","a","n","t">>
              /\ (llm' # <<>> /\ (llm'[1].raises \/ llm'[1].message.content = <<>>)) =>
                     Len(messages') = Len(messages) + 1
      ]_vars


====
